---- MODULE Spec2Model ----
(***************************************************************************)
(* Context-tree processing pipeline of Maestro4D (web-internal backend).   *)
(*                                                                         *)
(*   routers/context_tree.py            job registry, triggers, reset      *)
(*   services/context_tree_processor.py PageProcessor, DisciplineProcessor,*)
(*                                      reference resolver and propagator  *)
(*                                                                         *)
(* Scheduling.  The background tasks and the two trigger handlers are      *)
(* coroutines of one asyncio event loop: between two awaits a coroutine    *)
(* runs alone.  loopOwner names the coroutine that holds the loop between  *)
(* two of its steps; a step that ends at an await (the oracle call, the    *)
(* gather of the Pass 1 tasks, the end of the task) releases it.           *)
(* reset_page_processing is a plain def endpoint, which FastAPI runs in a  *)
(* worker thread: it interleaves with the coroutines at every commit.      *)
(* Every action ends at a commit or at an await, so every state of the     *)
(* model is a state of the database an observer can read.                  *)
(***************************************************************************)
EXTENDS Integers, Sequences, FiniteSets, TLC

\* ------------------------------------------------------------------ bounds
NumPages == 2
MaxJobs == 3
MaxEvents == 3
MaxOracleFailures == 4

\* ------------------------------------------------------- program constants
concurrency_limit == 5
max_retries == 3

Pages == 1..NumPages
JobIds == 1..MaxJobs

\* --------------------------------------------------------------- strings
\* A reference or sheet number is a tuple of one-character strings; the
\* empty tuple stands for None and for "" (both are falsy where the code
\* tests them).
NoString == << >>

Upper(c) ==
    CASE c = "a" -> "A"
      [] c = "m" -> "M"
      [] c = "x" -> "X"
      [] OTHER -> c

UpperStr(s) == [i \in DOMAIN s |-> Upper(s[i])]

NotSeparator(c) == c \notin {"-", ".", " "}

\* re.sub(r'[-.\s]', '', part.upper())
StripSeparators(s) == SelectSeq(UpperStr(s), NotSeparator)

\* re.match(r'^[A-Z]+\d', clean)
RECURSIVE LettersThenDigit(_, _)
LettersThenDigit(s, seenLetter) ==
    LET Letters == {"A", "M", "X"}
        Digits == {"0", "1", "2", "3", "5"}
    IN  IF s = << >> THEN FALSE
        ELSE IF Head(s) \in Letters THEN LettersThenDigit(Tail(s), TRUE)
        ELSE seenLetter /\ Head(s) \in Digits

\* ref.split('/')
RECURSIVE SplitSlash(_, _)
SplitSlash(s, cur) ==
    IF s = << >> THEN << cur >>
    ELSE IF Head(s) = "/" THEN << cur >> \o SplitSlash(Tail(s), << >>)
    ELSE SplitSlash(Tail(s), Append(cur, Head(s)))

RECURSIVE FirstSheetPart(_)
FirstSheetPart(parts) ==
    IF parts = << >> THEN NoString
    ELSE IF LettersThenDigit(StripSeparators(Head(parts)), FALSE)
         THEN StripSeparators(Head(parts))
         ELSE FirstSheetPart(Tail(parts))

HasSlash(s) == \E i \in DOMAIN s : s[i] = "/"

\* the same without ref.upper()
normalize_sheet_ref_keeping_case(ref) ==
    IF ref = NoString THEN NoString
    ELSE SelectSeq(ref, NotSeparator)

normalize_sheet_ref(ref) ==
    IF ref = NoString THEN NoString
    ELSE IF HasSlash(ref) /\ FirstSheetPart(SplitSlash(ref, << >>)) # NoString
         THEN FirstSheetPart(SplitSlash(ref, << >>))
         ELSE StripSeparators(ref)

\* The strings of the model.
A_101 == << "A", "-", "1", "0", "1" >>
A101 == << "A", "1", "0", "1" >>
a_dot_101 == << "a", ".", "1", "0", "1" >>
M_201 == << "M", "-", "2", "0", "1" >>
M201 == << "M", "2", "0", "1" >>
Detail_3_A_101 == << "3", "/", "A", "-", "1", "0", "1" >>
X_305 == << "X", "-", "3", "0", "5" >>
Dash == << "-" >>
a_space_101 == << "a", " ", "1", "0", "1" >>

\* ------------------------------------------------------------ documents
\* The project's PDF files, one page each.  FileSheet is what
\* extract_sheet_number_from_filename finds in the file's name.
FileSheet(p) ==
    CASE p = 1 -> A101
      [] p = 2 -> M201
      [] OTHER -> NoString

\* DISCIPLINE_CODES, restricted to the codes the modelled oracle can name.
DISCIPLINE_CODES == {"A", "M", "G"}

CodeOrder == << "A", "G", "M" >>

\* ------------------------------------------------------------------ rows
NoPass1 == [present |-> FALSE, discipline |-> "", sheet_number |-> NoString,
            refs |-> << >>]
NoPass2 == [present |-> FALSE, outbound_refs_context |-> << >>]
NoInbound == [present |-> FALSE, entries |-> << >>]

PageStatuses == {"unprocessed", "pass1_processing", "pass1_complete",
                 "pass2_processing", "pass2_complete", "error"}

\* PageContext(file_id, page_number, page_title, sheet_number,
\*             processing_status="unprocessed")
NewPage(sheet) ==
    [exists |-> TRUE, status |-> "unprocessed", retry_count |-> 0,
     sheet_number |-> sheet, discipline_code |-> "", discipline_id |-> "",
     pass1_output |-> NoPass1, inbound_references |-> NoInbound,
     pass2_output |-> NoPass2, error_message |-> ""]

NoPage == [NewPage(NoString) EXCEPT !.exists = FALSE]

\* DisciplineContext(project_id, code, name, processing_status="waiting")
\* rows counts the rows of the table that hold the code.
NewDiscipline == [exists |-> TRUE, status |-> "waiting", described |-> FALSE, rows |-> 1]

NoDiscipline == [exists |-> FALSE, status |-> "waiting", described |-> FALSE, rows |-> 0]

\* ------------------------------------------------------------- variables
VARIABLES
    pages,        \* page_contexts rows of the project
    pointers,     \* pages that carry at least one ContextPointer
    discs,        \* discipline_contexts rows of the project
    activeJob,    \* _active_jobs[project_id]
    jobsCreated,  \* number of uuid4 job ids handed out
    runs,         \* the background tasks, by job id
    loopOwner,    \* the coroutine running on the event loop (0: none)
    response,     \* the last response of a trigger or of the reset
    budget,       \* events the environment may still cause: a job started,
                  \* a reset carried out, an oracle call that fails
    oracle,       \* what the oracle may read on each page in Pass 1
    readyEvents,  \* discipline_ready events emitted since the last reset
    pass3Runs,    \* run_pass3 executions since the last reset
    pass2_failed, \* pages whose Pass 2 failed after their last successful Pass 1
    sse_subscribers, \* _sse_subscribers[project_id]: the subscribers' queues
    file_ids,     \* pages whose PDF file is a project file of the project
    json_call     \* the _call_gemini_json of the process_pass1 under study

vars == << pages, pointers, discs, activeJob, jobsCreated, runs, loopOwner,
           response, budget, oracle, readyEvents, pass3Runs, pass2_failed,
           sse_subscribers, file_ids, json_call >>

\* ---------------------------------------------------------------- queries
RECURSIVE SeqOfSet(_, _)
\* the pages of S in the order of ORDER BY file_id, page_number
SeqOfSet(S, p) ==
    IF p > NumPages THEN << >>
    ELSE IF p \in S THEN << p >> \o SeqOfSet(S, p + 1)
    ELSE SeqOfSet(S, p + 1)

RECURSIVE CodesIn(_, _)
CodesIn(S, i) ==
    IF i > Len(CodeOrder) THEN << >>
    ELSE IF CodeOrder[i] \in S THEN << CodeOrder[i] >> \o CodesIn(S, i + 1)
    ELSE CodesIn(S, i + 1)

Rows(pg) == {p \in Pages : pg[p].exists}

get_pages_for_processing(pg, ptr) ==
    {p \in Rows(pg) : /\ pg[p].status \in {"unprocessed", "error", "pass1_processing"}
                      /\ p \in ptr}

get_pages_for_pass2(pg, ptr) ==
    {p \in Rows(pg) : /\ pg[p].status \in {"pass1_complete", "pass2_processing"}
                      /\ p \in ptr}

\* Returns page_id, sheet_number and summary of every page that has
\* completed Pass 1; the summary is the one Pass 1 stored with its output.
get_all_page_summaries(pg) ==
    {[page_id |-> p, sheet_number |-> pg[p].sheet_number,
      summary |-> pg[p].pass1_output] :
        p \in {q \in Rows(pg) : pg[q].status \in {"pass1_complete", "pass2_processing",
                                                  "pass2_complete"}}}

\* ensure_page_contexts_exist: rows only for pages with pointers; the fill-in
\* of a missing sheet number of an existing row is committed only together
\* with a created row.
ensure_page_contexts_exist(pg, ptr) ==
    LET created == {p \in ptr : ~pg[p].exists}
    IN  IF created = {} THEN pg
        ELSE [p \in Pages |->
                IF p \in created THEN NewPage(FileSheet(p))
                ELSE IF p \in ptr /\ pg[p].sheet_number = NoString
                     THEN [pg[p] EXCEPT !.sheet_number = FileSheet(p)]
                     ELSE pg[p]]

\* a table that takes a second row for a code
commit_added_unconstrained(ds, codes) ==
    [c \in DISCIPLINE_CODES |->
        IF c \notin codes THEN ds[c]
        ELSE IF ds[c].exists THEN [ds[c] EXCEPT !.rows = @ + 1]
        ELSE NewDiscipline]

\* db.add(DisciplineContext(code=code, processing_status="waiting")) for each
\* code, then db.commit(): the table holds one row per (project, code), so a
\* commit that adds a row for a code that has one fails and adds nothing.
commit_added(ds, codes) ==
    IF \E c \in codes : ds[c].exists THEN ds
    ELSE [c \in DISCIPLINE_CODES |-> IF c \in codes THEN NewDiscipline ELSE ds[c]]

\* adds a row for each code for which the query finds none
ensure_discipline_contexts_exist(ds, codes) ==
    commit_added(ds, {c \in codes : ~ds[c].exists})

\* --------------------------------------------------- reference resolver
Pass1CompletePages(pg) == {p \in Rows(pg) : pg[p].status = "pass1_complete"}

\* page_lookup[normalized]: the sheet number of the last page with that key
PageLookup(pg, key) ==
    LET hits == {p \in Pass1CompletePages(pg) :
                    /\ pg[p].sheet_number # NoString
                    /\ normalize_sheet_ref(pg[p].sheet_number) = key}
    IN  IF hits = {} THEN NoString
        ELSE pg[CHOOSE p \in hits : \A q \in hits : q <= p].sheet_number

InboundEntry(pg, p, ref) ==
    [source_sheet |-> pg[p].sheet_number, source_page_id |-> p,
     type |-> ref.type, original_ref |-> ref.ref,
     has_context |-> FALSE, context |-> ""]

RECURSIVE EntriesFromRefs_unnormalized(_, _, _, _)
\* the same loops, matching a reference against the sheet numbers as written
EntriesFromRefs_unnormalized(pg, p, refs, target) ==
    IF refs = << >> THEN << >>
    ELSE (IF Head(refs).ref # NoString /\ Head(refs).ref = target
          THEN << InboundEntry(pg, p, Head(refs)) >> ELSE << >>)
            \o EntriesFromRefs_unnormalized(pg, p, Tail(refs), target)

RECURSIVE EntriesFromRefs(_, _, _, _)
\* the inner loops of the inbound map, for one source page
EntriesFromRefs(pg, p, refs, target) ==
    IF refs = << >> THEN << >>
    ELSE LET key == normalize_sheet_ref(Head(refs).ref)
             hit == /\ key # NoString
                    /\ PageLookup(pg, key) # NoString
                    /\ PageLookup(pg, key) = target
         IN  (IF hit THEN << InboundEntry(pg, p, Head(refs)) >> ELSE << >>)
                \o EntriesFromRefs(pg, p, Tail(refs), target)

RECURSIVE InboundMap(_, _, _)
\* inbound_map[target], sources in query order
InboundMap(pg, srcs, target) ==
    IF srcs = << >> THEN << >>
    ELSE EntriesFromRefs(pg, Head(srcs), pg[Head(srcs)].pass1_output.refs, target)
            \o InboundMap(pg, Tail(srcs), target)

compute_inbound_references(pg) ==
    LET done == Pass1CompletePages(pg)
    IN  [p \in Pages |->
            IF p \in done
            THEN [pg[p] EXCEPT !.inbound_references =
                    [present |-> TRUE,
                     entries |-> IF pg[p].sheet_number = NoString THEN << >>
                                 ELSE InboundMap(pg, SeqOfSet(done, 1),
                                                 pg[p].sheet_number)]]
            ELSE pg[p]]

\* --------------------------------------------------- context propagator
Pass2CompletePages(pg) == {p \in Rows(pg) : pg[p].status = "pass2_complete"}

\* context_lookup[(source_sheet, ref)]: the last context written for the key
RECURSIVE LastContext(_, _, _)
LastContext(ctxs, ref, found) ==
    IF ctxs = << >> THEN found
    ELSE LastContext(Tail(ctxs), ref,
                     IF Head(ctxs).ref = ref /\ ref # NoString
                     THEN [hit |-> TRUE, context |-> Head(ctxs).context]
                     ELSE found)

RECURSIVE ContextLookup(_, _, _, _, _)
ContextLookup(pg, srcs, sheet, ref, found) ==
    IF srcs = << >> THEN found
    ELSE ContextLookup(pg, Tail(srcs), sheet, ref,
            IF pg[Head(srcs)].sheet_number = sheet /\ sheet # NoString
            THEN LastContext(pg[Head(srcs)].pass2_output.outbound_refs_context,
                             ref, found)
            ELSE found)

propagate_inbound_context(pg) ==
    LET done == Pass2CompletePages(pg)
        Lookup(e) == ContextLookup(pg, SeqOfSet(done, 1), e.source_sheet,
                                   e.original_ref, [hit |-> FALSE, context |-> ""])
        Updated(p) == \E i \in DOMAIN pg[p].inbound_references.entries :
                        Lookup(pg[p].inbound_references.entries[i]).hit
        Fill(e) == IF Lookup(e).hit
                   THEN [e EXCEPT !.has_context = TRUE, !.context = Lookup(e).context]
                   ELSE IF ~e.has_context
                        THEN [e EXCEPT !.has_context = TRUE, !.context = ""]
                        ELSE e
    IN  [p \in Pages |->
            IF p \in done /\ Updated(p)
            THEN [pg[p] EXCEPT !.inbound_references.entries =
                    [i \in DOMAIN pg[p].inbound_references.entries |->
                        Fill(pg[p].inbound_references.entries[i])]]
            ELSE pg[p]]

\* ------------------------------------------------------------ the sweep
Orphans(pg) ==
    {p \in Rows(pg) : pg[p].status \in {"unprocessed", "error", "pass1_processing"}}

\* a sweep that resets every orphan, whatever its retry_count
Retryable_ignoring_budget(pg) == Orphans(pg)

\* retryable = [p for p in orphans if p.retry_count < max_retries]
Retryable(pg) == {p \in Orphans(pg) : pg[p].retry_count < max_retries}

PermanentlyFailed(pg) == {p \in Orphans(pg) : pg[p].retry_count >= max_retries}

\* _sweep_and_retry_orphans: the rows after the sweep's commit
SweepReset(pg) ==
    [p \in Pages |->
        IF p \in Retryable(pg)
        THEN [pg[p] EXCEPT !.status = "unprocessed",
                           !.retry_count = @ + 1,
                           !.error_message = ""]
        ELSE pg[p]]

\* ------------------------------------------------- discipline readiness
DisciplinePages(pg, code) == {p \in Rows(pg) : pg[p].discipline_code = code}

\* the test of check_discipline_ready
BecomesReady(pg, ds, code) ==
    /\ code # ""
    /\ DisciplinePages(pg, code) # {}
    /\ DisciplinePages(pg, code) \subseteq Pass2CompletePages(pg)
    /\ ds[code].exists
    /\ ds[code].status = "waiting"

\* DisciplineProcessor.on_discipline_ready
on_discipline_ready(queue, code) ==
    IF \E i \in DOMAIN queue : queue[i] = code THEN queue ELSE Append(queue, code)

\* ------------------------------------------------------------ the oracle
\* What the analysis oracle may answer for a page in Pass 1.
Ref(r, t) == [ref |-> r, type |-> t]

\* The drawing set of the spec's example: A-101 refers to M-201.
TitleBlock(p) ==
    CASE p = 1 -> [discipline |-> "A", sheet_number |-> A_101,
                   refs |-> << Ref(M_201, "sheet") >>]
      [] p = 2 -> [discipline |-> "M", sheet_number |-> M_201, refs |-> << >>]
      [] OTHER -> [discipline |-> "A", sheet_number |-> NoString,
                   refs |-> << Ref(Detail_3_A_101, "detail") >>]

\* an oracle that always reads the title block
ExactOracle == [p \in Pages |-> {TitleBlock(p)}]

\* an oracle that may miss it
AnyOracle ==
    LET \* the answer of an oracle that misses the title block of page 1
        Unlabelled(p) ==
            CASE p = 1 -> [discipline |-> "X", sheet_number |-> NoString,
                           refs |-> << Ref(M201, "detail") >>]
              [] OTHER -> TitleBlock(p)
    IN  [p \in Pages |-> {TitleBlock(p), Unlabelled(p)}]

\* an oracle that may also read the discipline of page 1 on every page
SharedOracle ==
    [p \in Pages |-> AnyOracle[p] \cup {[TitleBlock(p) EXCEPT !.discipline = "A"]}]

\* The answer the Pass 2 prompt asks for: one context per outbound reference
\* of Pass 1.
Contextualised(p1out) ==
    [present |-> TRUE,
     outbound_refs_context |->
        [i \in DOMAIN p1out.refs |-> [ref |-> p1out.refs[i].ref, context |-> "ctx"]]]

\* An answer that leaves the page's references out and names a sheet that
\* Pass 1 did not record.
Invented(p1out) ==
    [present |-> TRUE,
     outbound_refs_context |-> << [ref |-> X_305, context |-> "ctx"] >>]

\* What the oracle may answer in Pass 2.
Pass2Answers(p1out) ==
    IF oracle = ExactOracle
    THEN {Contextualised(p1out)}
    ELSE {Contextualised(p1out), Invented(p1out)}

\* --------------------------------------------------------------- the runs
NoTasks == [p \in Pages |-> "none"]

\* No oracle call under study.  A call records its page, the index of the
\* running attempt, the generate_content requests issued, the failure of each
\* attempt, the delays slept, the response text and the exception raised;
\* where the text itself is followed, response holds its characters and
\* clean_result what _clean_json_response made of them.
NoCall ==
    [pc |-> "idle", page |-> 0, attempt |-> 0, requests |-> 0, failures |-> << >>,
     delays |-> << >>, last_exception |-> "None", text |-> "None", raised |-> "None",
     response |-> << >>, clean_result |-> << >>]

\* A background task: _run_page_processing ("pages"), _run_discipline_processing
\* ("disciplines") or process_project_context_tree ("tree"), with the locals
\* of the coroutine.  selected is the page_ids of the phase that is running or
\* has just returned, errors the pages for which it emitted an "error" event.
IdleRun ==
    [kind |-> "none", pc |-> "idle", in_retry_loop |-> FALSE, tasks |-> NoTasks,
     discovered |-> {}, page_ids |-> << >>, iterations |-> 0, failed |-> {},
     pass1_output |-> NoPass1, selected |-> {}, errors |-> {},
     ready_disciplines |-> << >>,
     discipline_codes |-> << >>, current |-> "", member_pages |-> {},
     concurrency_limit |-> concurrency_limit,
     all_page_summaries |-> {}, other_pages_summaries |-> {}]

NewRun(kind) == [IdleRun EXCEPT !.kind = kind, !.pc = "created"]

Executing(j) == runs[j].pc \notin {"idle", "done"}

NoJob == [job_id |-> 0, type |-> "none"]

NoResponse == [op |-> "none", job_id |-> 0, status |-> "none"]

ZeroCount == [c \in DISCIPLINE_CODES |-> 0]

\* ------------------------------------------------------ progress events
\* _subscribe_sse: asyncio.Queue(maxsize=100)
maxsize == 100

\* asyncio.Queue.full(), the condition under which put_nowait raises QueueFull
QueueFull(queue) == Len(queue) >= maxsize

\* a put that makes room by dropping the oldest event
put_nowait_dropping_oldest(queue, item) ==
    IF QueueFull(queue) THEN Append(Tail(queue), item) ELSE Append(queue, item)

\* the body of the loop of _broadcast_event: queue.put_nowait(...) with
\* QueueFull caught and logged
put_nowait(queue, item) ==
    IF QueueFull(queue) THEN queue ELSE Append(queue, item)

\* _broadcast_event
broadcast_event(subscribers, item) ==
    [i \in DOMAIN subscribers |-> put_nowait(subscribers[i], item)]

\* _emit_progress with the progress_callback of _run_page_processing and
\* _run_discipline_processing, for the events of one step in their order:
\* data["jobId"] = job_id; _broadcast_event(project_id, event_type, data)
RECURSIVE emit_progress(_, _, _)
emit_progress(subscribers, job_id, event_types) ==
    IF event_types = << >> THEN subscribers
    ELSE emit_progress(broadcast_event(subscribers,
                            [event_type |-> Head(event_types), jobId |-> job_id]),
                       job_id, Tail(event_types))

\* the events a step of job j emits; process_project_context_tree is called
\* without a progress_callback
Emit(j, event_types) ==
    sse_subscribers' = IF runs[j].kind = "tree" THEN sse_subscribers
                       ELSE emit_progress(sse_subscribers, j, event_types)

\* ----------------------------------------------------------- the handlers
\* _get_active_job
get_active_job(job, job_type) == IF job.type = job_type THEN job ELSE NoJob

\* _clear_job
clear_job(job) == NoJob

\* trigger_page_processing / trigger_discipline_processing
Trigger(kind, op) ==
    /\ loopOwner = 0
    /\ IF get_active_job(activeJob, kind) # NoJob
       THEN /\ response' = [op |-> op, job_id |-> activeJob.job_id,
                            status |-> "already_running"]
            /\ UNCHANGED << activeJob, jobsCreated, runs, budget >>
       ELSE /\ jobsCreated < MaxJobs
            /\ budget > 0
            /\ budget' = budget - 1
            /\ jobsCreated' = jobsCreated + 1
            /\ activeJob' = [job_id |-> jobsCreated', type |-> kind]
            /\ runs' = [runs EXCEPT ![jobsCreated'] = NewRun(kind)]
            /\ response' = [op |-> op, job_id |-> jobsCreated', status |-> "started"]
    /\ UNCHANGED << json_call, file_ids, sse_subscribers, oracle, pages, pointers, discs, loopOwner, readyEvents,
                    pass3Runs, pass2_failed >>

TriggerPages == Trigger("pages", "process-pages")

TriggerDisciplines == Trigger("disciplines", "process-disciplines")

ResetPages(pg) ==
    [p \in Pages |->
        IF pg[p].exists
        THEN NewPage(pg[p].sheet_number)
        ELSE pg[p]]

ResetDisciplines(ds) ==
    [c \in DISCIPLINE_CODES |->
        IF ds[c].exists THEN [NewDiscipline EXCEPT !.rows = ds[c].rows] ELSE ds[c]]

reset_page_processing ==
    /\ IF activeJob # NoJob
       THEN /\ response' = [op |-> "reset", job_id |-> 0, status |-> "conflict"]
            /\ UNCHANGED << pages, discs, budget, readyEvents, pass3Runs, pass2_failed >>
       ELSE IF file_ids = {}
       THEN /\ budget > 0
            /\ budget' = budget - 1
            /\ response' = [op |-> "reset", job_id |-> 0, status |-> "ok"]
            /\ UNCHANGED << pages, discs, readyEvents, pass3Runs, pass2_failed >>
       ELSE /\ budget > 0
            /\ budget' = budget - 1
            /\ response' = [op |-> "reset", job_id |-> 0, status |-> "ok"]
            /\ pages' = ResetPages(pages)
            /\ discs' = ResetDisciplines(discs)
            /\ readyEvents' = ZeroCount
            /\ pass3Runs' = ZeroCount
            /\ pass2_failed' = {}
    /\ UNCHANGED << json_call, file_ids, sse_subscribers, oracle, pointers, activeJob, jobsCreated, runs, loopOwner >>

\* ------------------------------------------------- PageProcessor, Pass 1
\* run_pass1 from the selection to the gather
RunPass1(r, selected, after) ==
    IF selected = {}
    THEN [r EXCEPT !.pc = after, !.selected = {}, !.errors = {}]
    ELSE [r EXCEPT !.pc = "gather",
                   !.tasks = [p \in Pages |-> IF p \in selected THEN "queued" ELSE "none"],
                   !.selected = selected,
                   !.errors = {},
                   !.discovered = {}]

\* start_processing up to the first await
StartProcessing(j) ==
    /\ loopOwner = 0
    /\ runs[j].pc = "created"
    /\ runs[j].kind \in {"pages", "tree"}
    /\ pages' = ensure_page_contexts_exist(pages, pointers)
    /\ LET r == RunPass1(runs[j], get_pages_for_processing(pages', pointers), "resolve")
       IN  /\ runs' = [runs EXCEPT ![j] = r]
           /\ loopOwner' = IF r.pc = "gather" THEN 0 ELSE j
    /\ Emit(j, << "processing_started" >>)
    /\ UNCHANGED << json_call, file_ids, oracle, pointers, discs, activeJob, jobsCreated, response,
                    budget, readyEvents, pass3Runs, pass2_failed >>

\* run_pass1 of the retry loop
RetryPass1(j) ==
    /\ loopOwner = j
    /\ runs[j].pc = "retry_pass1"
    /\ LET r == RunPass1(runs[j], get_pages_for_processing(pages, pointers),
                         "select_pass2")
       IN  /\ runs' = [runs EXCEPT ![j] = r]
           /\ loopOwner' = IF r.pc = "gather" THEN 0 ELSE j
    /\ UNCHANGED << json_call, file_ids, sse_subscribers, oracle, pages, pointers, discs, activeJob, jobsCreated, response,
                    budget, readyEvents, pass3Runs, pass2_failed >>

InFlight(r) == {p \in Pages : r.tasks[p] = "calling"}

\* a semaphore that always has a permit
semaphore_never_locked(r) == FALSE

\* asyncio.Semaphore(self.concurrency_limit) with every permit taken
semaphore_locked(r) == Cardinality(InFlight(r)) >= r.concurrency_limit

\* process_with_semaphore / process_pass1 up to the oracle call
Pass1Begin(j, p) ==
    /\ loopOwner = 0
    /\ runs[j].pc = "gather"
    /\ runs[j].tasks[p] = "queued"
    /\ \A q \in Pages : q < p => runs[j].tasks[q] # "queued"
    /\ ~semaphore_locked(runs[j])
    /\ pages' = [pages EXCEPT ![p].status = "pass1_processing"]
    /\ runs' = [runs EXCEPT ![j].tasks[p] = "calling"]
    /\ UNCHANGED << json_call, file_ids, sse_subscribers, oracle, pointers, discs, activeJob, jobsCreated, loopOwner, response,
                    budget, readyEvents, pass3Runs, pass2_failed >>

\* if discipline not in DISCIPLINE_CODES: discipline = "G"
ValidDiscipline_unchecked(d) == d

ValidDiscipline(d) == IF d \in DISCIPLINE_CODES THEN d ELSE "G"

\* the commit of process_pass1 after a parsed answer
Pass1Success(row, p, answer) ==
    [row EXCEPT !.discipline_code = ValidDiscipline(answer.discipline),
                !.pass1_output = [present |-> TRUE,
                                  discipline |-> answer.discipline,
                                  sheet_number |-> answer.sheet_number,
                                  refs |-> answer.refs],
                !.sheet_number = IF answer.sheet_number # NoString
                                 THEN answer.sheet_number
                                 ELSE IF FileSheet(p) # NoString THEN FileSheet(p)
                                 ELSE @,
                !.status = "pass1_complete",
                !.error_message = ""]

\* a failure that leaves the row as the pass found it
PassFailure_unrecorded(row, message) ==
    [row EXCEPT !.error_message = message]

\* the except branch of process_pass1 / process_pass2
PassFailure(row, message) ==
    [row EXCEPT !.status = "error", !.error_message = message]

Pass1Done(j, p) ==
    /\ loopOwner = 0
    /\ runs[j].pc = "gather"
    /\ runs[j].tasks[p] = "calling"
    /\ \/ \E answer \in oracle[p] :
            /\ pages' = [pages EXCEPT ![p] = Pass1Success(@, p, answer)]
            /\ runs' = [runs EXCEPT ![j].tasks[p] = "done",
                                    ![j].discovered =
                                        @ \cup {ValidDiscipline(answer.discipline)}]
            /\ pass2_failed' = pass2_failed \ {p}
            /\ UNCHANGED budget
       \/ /\ budget > 0
          /\ budget' = budget - 1
          /\ pages' = [pages EXCEPT ![p] = PassFailure(@, "pass1")]
          /\ runs' = [runs EXCEPT ![j].tasks[p] = "done",
                                  ![j].errors = @ \cup {p}]
          /\ UNCHANGED pass2_failed
    /\ Emit(j, << "page_pass1_complete" >>)
    /\ UNCHANGED << json_call, file_ids, oracle, pointers, discs, activeJob, jobsCreated, loopOwner, response,
                    readyEvents, pass3Runs >>

\* run_pass1 after the gather
Pass1Join(j) ==
    /\ loopOwner = 0
    /\ runs[j].pc = "gather"
    /\ \A p \in Pages : runs[j].tasks[p] \in {"none", "done"}
    /\ discs' = ensure_discipline_contexts_exist(discs, runs[j].discovered)
    /\ runs' = [runs EXCEPT ![j].pc = IF runs[j].in_retry_loop
                                      THEN "select_pass2" ELSE "resolve",
                            ![j].tasks = NoTasks,
                            ![j].selected = {},
                            ![j].errors = {},
                            ![j].discovered = {}]
    /\ loopOwner' = j
    /\ Emit(j, << "pass1_complete" >>)
    /\ UNCHANGED << json_call, file_ids, oracle, pages, pointers, activeJob, jobsCreated, response,
                    budget, readyEvents, pass3Runs, pass2_failed >>

\* start_processing: the resolver, once, after the first Pass 1
Resolve(j) ==
    /\ loopOwner = j
    /\ runs[j].pc = "resolve"
    /\ pages' = compute_inbound_references(pages)
    /\ runs' = [runs EXCEPT ![j].pc = "select_pass2"]
    /\ UNCHANGED << json_call, file_ids, sse_subscribers, oracle, pointers, discs, activeJob, jobsCreated, loopOwner, response,
                    budget, readyEvents, pass3Runs, pass2_failed >>

\* ------------------------------------------------- PageProcessor, Pass 2
AfterPass2(r) == IF r.in_retry_loop THEN "sweep" ELSE "propagate"

\* run_pass2 up to its loop
SelectPass2(j) ==
    /\ loopOwner = j
    /\ runs[j].pc = "select_pass2"
    /\ LET selected == SeqOfSet(get_pages_for_pass2(pages, pointers), 1)
       IN  runs' = [runs EXCEPT ![j].page_ids = selected,
                                ![j].selected = {selected[i] : i \in DOMAIN selected},
                                ![j].errors = {},
                                ![j].all_page_summaries =
                                    IF selected = << >> THEN {}
                                    ELSE get_all_page_summaries(pages),
                                ![j].pc = IF selected = << >>
                                          THEN AfterPass2(runs[j])
                                          ELSE "pass2_begin"]
    /\ UNCHANGED << json_call, file_ids, sse_subscribers, oracle, pages, pointers, discs, activeJob, jobsCreated, loopOwner,
                    response, budget, readyEvents, pass3Runs, pass2_failed >>

\* process_pass2 up to the oracle call
Pass2Begin(j) ==
    /\ loopOwner = j
    /\ runs[j].pc = "pass2_begin"
    /\ LET p == Head(runs[j].page_ids)
       IN  pages' = [pages EXCEPT ![p].status = "pass2_processing"]
    /\ runs' = [runs EXCEPT ![j].pc = "pass2_call",
                            ![j].pass1_output = pages[Head(runs[j].page_ids)].pass1_output,
                            ![j].other_pages_summaries =
                                \* [p for p in all_page_summaries
                                \*  if p["page_id"] != page_id]
                                {s \in runs[j].all_page_summaries :
                                    s.page_id # Head(runs[j].page_ids)}]
    /\ loopOwner' = 0
    /\ UNCHANGED << json_call, file_ids, sse_subscribers, oracle, pointers, discs, activeJob, jobsCreated, response,
                    budget, readyEvents, pass3Runs, pass2_failed >>

\* the commit of process_pass2 after a parsed answer
Pass2Success(row, answer) ==
    [row EXCEPT !.pass2_output = answer,
                !.status = "pass2_complete",
                !.error_message = ""]

\* run_pass2: the step to the next page, or out of the loop
NextPass2(r) ==
    [r EXCEPT !.page_ids = Tail(@),
              !.pass1_output = NoPass1,
              !.other_pages_summaries = {},
              !.all_page_summaries = IF Tail(r.page_ids) = << >> THEN {} ELSE @,
              !.pc = IF Tail(r.page_ids) = << >> THEN AfterPass2(r) ELSE "pass2_begin"]

Pass2Done(j) ==
    /\ loopOwner = 0
    /\ runs[j].pc = "pass2_call"
    /\ LET p == Head(runs[j].page_ids)
           \* run_pass2 after its loop
           pass2_complete == IF Tail(runs[j].page_ids) = << >>
                             THEN << "pass2_complete" >> ELSE << >>
       IN  \/ \E answer \in Pass2Answers(runs[j].pass1_output) :
                LET pg == [pages EXCEPT ![p] = Pass2Success(@, answer)]
                    code == pg[p].discipline_code
                    ready == BecomesReady(pg, discs, code)
                IN  /\ pages' = pg
                    /\ discs' = IF ready THEN [discs EXCEPT ![code].status = "ready"]
                                ELSE discs
                    /\ readyEvents' = IF ready THEN [readyEvents EXCEPT ![code] = @ + 1]
                                      ELSE readyEvents
                    /\ runs' = [runs EXCEPT ![j] =
                            [NextPass2(@) EXCEPT !.ready_disciplines =
                                IF ready THEN on_discipline_ready(@, code) ELSE @]]
                    /\ Emit(j, (IF ready THEN << "discipline_ready" >> ELSE << >>)
                                \o << "page_pass2_complete" >>
                                \o pass2_complete)
                    /\ UNCHANGED << budget, pass2_failed >>
           \/ /\ budget > 0
              /\ budget' = budget - 1
              /\ pages' = [pages EXCEPT ![p] = PassFailure(@, "pass2")]
              /\ pass2_failed' = pass2_failed \cup {p}
              /\ runs' = [runs EXCEPT ![j] = [NextPass2(@) EXCEPT !.errors = @ \cup {p}]]
              /\ Emit(j, << "error" >> \o pass2_complete)
              /\ UNCHANGED << discs, readyEvents >>
    /\ loopOwner' = j
    /\ UNCHANGED << json_call, file_ids, oracle, pointers, activeJob, jobsCreated, response, pass3Runs >>

\* start_processing: the propagator, once, after the first Pass 2
Propagate(j) ==
    /\ loopOwner = j
    /\ runs[j].pc = "propagate"
    /\ pages' = propagate_inbound_context(pages)
    /\ runs' = [runs EXCEPT ![j].pc = "sweep", ![j].selected = {}, ![j].errors = {}]
    /\ UNCHANGED << json_call, file_ids, sse_subscribers, oracle, pointers, discs, activeJob, jobsCreated, loopOwner, response,
                    budget, readyEvents, pass3Runs, pass2_failed >>

\* _sweep_and_retry_orphans and the test of the while loop
Sweep(j) ==
    /\ loopOwner = j
    /\ runs[j].pc = "sweep"
    /\ pages' = SweepReset(pages)
    /\ runs' = [runs EXCEPT ![j] =
            IF Retryable(pages) # {}
            THEN [@ EXCEPT !.pc = "retry_pass1", !.in_retry_loop = TRUE,
                           !.iterations = IF @ > max_retries THEN @ ELSE @ + 1,
                           !.selected = {}, !.errors = {},
                           !.failed = PermanentlyFailed(pages)]
            ELSE [@ EXCEPT !.pc = "finish", !.selected = {}, !.errors = {},
                           !.failed = PermanentlyFailed(pages)]]
    /\ Emit(j, IF PermanentlyFailed(pages) # {}
                THEN << "pass2_orphans_detected" >> ELSE << >>)
    /\ UNCHANGED << json_call, file_ids, oracle, pointers, discs, activeJob, jobsCreated, loopOwner, response,
                    budget, readyEvents, pass3Runs, pass2_failed >>

\* What is left of a coroutine's locals once it has returned.
Returned(r) ==
    [IdleRun EXCEPT !.kind = r.kind, !.pc = "done", !.iterations = r.iterations,
                    !.failed = r.failed]

\* start_processing returns: _run_page_processing broadcasts and clears the
\* job; process_project_context_tree goes on to process_all_ready.
Finish(j) ==
    /\ loopOwner = j
    /\ runs[j].pc = "finish"
    /\ IF runs[j].kind = "pages"
       THEN /\ activeJob' = clear_job(activeJob)
            /\ runs' = [runs EXCEPT ![j] = Returned(@)]
            /\ loopOwner' = 0
       ELSE /\ runs' = [runs EXCEPT ![j].pc = "process_queue"]
            /\ UNCHANGED << activeJob, loopOwner >>
    /\ sse_subscribers' =
            IF runs[j].kind = "pages"
            THEN broadcast_event(
                    emit_progress(sse_subscribers, j, << "processing_complete" >>),
                    [event_type |-> "processing_complete", jobId |-> j])
            ELSE sse_subscribers
    /\ UNCHANGED << json_call, file_ids, oracle, pages, pointers, discs, jobsCreated, response, budget,
                    readyEvents, pass3Runs, pass2_failed >>

\* ------------------------------------------------- DisciplineProcessor
\* _run_discipline_processing up to process_all_ready
StartDisciplines(j) ==
    /\ loopOwner = 0
    /\ runs[j].pc = "created"
    /\ runs[j].kind = "disciplines"
    /\ runs' = [runs EXCEPT ![j].pc = "process_queue"]
    /\ loopOwner' = j
    /\ UNCHANGED << json_call, file_ids, sse_subscribers, oracle, pages, pointers, discs, activeJob, jobsCreated, response,
                    budget, readyEvents, pass3Runs, pass2_failed >>

\* run_pass3 up to the oracle call, for the discipline at the head of the
\* list the run is working through
Pass3Begin(j, code, rest, call) ==
    IF ~discs[code].exists
    THEN /\ runs' = [runs EXCEPT ![j] = rest]
         /\ UNCHANGED << discs, pass3Runs, loopOwner >>
    ELSE /\ discs' = [discs EXCEPT ![code].status = "processing"]
         /\ pass3Runs' = [pass3Runs EXCEPT ![code] = @ + 1]
         /\ runs' = [runs EXCEPT ![j] =
                [rest EXCEPT !.pc = call, !.current = code,
                             !.member_pages = DisciplinePages(pages, code)
                                                \cap Pass2CompletePages(pages)]]
         /\ loopOwner' = 0

\* process_queue
ProcessQueue(j) ==
    /\ loopOwner = j
    /\ runs[j].pc = "process_queue"
    /\ IF runs[j].ready_disciplines = << >>
       THEN /\ runs' = [runs EXCEPT ![j].pc = "query_ready"]
            /\ UNCHANGED << discs, pass3Runs, loopOwner >>
       ELSE Pass3Begin(j, Head(runs[j].ready_disciplines),
                       [runs[j] EXCEPT !.ready_disciplines = Tail(@)],
                       "pass3_call_queue")
    /\ UNCHANGED << json_call, file_ids, sse_subscribers, oracle, pages, pointers, activeJob, jobsCreated, response,
                    budget, readyEvents, pass2_failed >>

\* process_all_ready: the query for the disciplines the queue missed
QueryReady(j) ==
    /\ loopOwner = j
    /\ runs[j].pc = "query_ready"
    /\ runs' = [runs EXCEPT ![j].pc = "process_ready",
                            ![j].discipline_codes = CodesIn({c \in DISCIPLINE_CODES :
                                            discs[c].exists /\ discs[c].status = "ready"}, 1)]
    /\ UNCHANGED << json_call, file_ids, sse_subscribers, oracle, pages, pointers, discs, activeJob, jobsCreated, loopOwner,
                    response, budget, readyEvents, pass3Runs, pass2_failed >>

\* process_all_ready: the loop over the queried codes, and the return
ProcessReady(j) ==
    /\ loopOwner = j
    /\ runs[j].pc = "process_ready"
    /\ IF runs[j].discipline_codes = << >>
       THEN /\ runs' = [runs EXCEPT ![j] = Returned(@)]
            /\ activeJob' = IF runs[j].kind = "disciplines"
                            THEN clear_job(activeJob) ELSE activeJob
            /\ loopOwner' = 0
            /\ sse_subscribers' =
                    IF runs[j].kind = "disciplines"
                    THEN broadcast_event(sse_subscribers,
                            [event_type |-> "processing_complete", jobId |-> j])
                    ELSE sse_subscribers
            /\ UNCHANGED << discs, pass3Runs >>
       ELSE /\ Pass3Begin(j, Head(runs[j].discipline_codes),
                          [runs[j] EXCEPT !.discipline_codes = Tail(@)],
                          "pass3_call_ready")
            /\ UNCHANGED << activeJob, sse_subscribers >>
    /\ UNCHANGED << json_call, file_ids, oracle, pages, pointers, jobsCreated, response, budget,
                    readyEvents, pass2_failed >>

\* the commit of run_pass3 after a parsed answer
Pass3Success(d) == [d EXCEPT !.status = "complete", !.described = TRUE]

Pass3Done(j) ==
    /\ loopOwner = 0
    /\ runs[j].pc \in {"pass3_call_queue", "pass3_call_ready"}
    /\ LET code == runs[j].current
       IN  \/ /\ discs' = [discs EXCEPT ![code] = Pass3Success(@)]
              /\ pages' = [p \in Pages |->
                            IF p \in runs[j].member_pages
                            THEN [pages[p] EXCEPT !.discipline_id = code]
                            ELSE pages[p]]
              /\ Emit(j, << "discipline_complete" >>)
              /\ UNCHANGED budget
           \/ /\ budget > 0
              /\ budget' = budget - 1
              /\ discs' = [discs EXCEPT ![code].status = "error"]
              /\ UNCHANGED << pages, sse_subscribers >>
    /\ runs' = [runs EXCEPT ![j].pc = IF runs[j].pc = "pass3_call_queue"
                                      THEN "process_queue" ELSE "process_ready",
                            ![j].current = "",
                            ![j].member_pages = {}]
    /\ loopOwner' = j
    /\ UNCHANGED << json_call, file_ids, oracle, pointers, activeJob, jobsCreated, response, readyEvents,
                    pass3Runs, pass2_failed >>

\* ------------------------------------------------------- initial states
NoRuns == [j \in JobIds |-> IdleRun]

\* A project whose annotated pages have never been processed.
FreshPages == [p \in Pages |-> NoPage]

FreshDisciplines == [c \in DISCIPLINE_CODES |-> NoDiscipline]

\* The rows a page job leaves when every oracle call succeeded.
ProcessedPages ==
    LET created == ensure_page_contexts_exist(FreshPages, Pages)
        pass1 == [p \in Pages |-> Pass1Success(created[p], p, TitleBlock(p))]
        resolved == compute_inbound_references(pass1)
        pass2 == [p \in Pages |->
                    Pass2Success(resolved[p],
                        Contextualised(resolved[p].pass1_output))]
    IN  propagate_inbound_context(pass2)

ProcessedDisciplines ==
    [c \in DISCIPLINE_CODES |->
        IF DisciplinePages(ProcessedPages, c) # {}
        THEN [NewDiscipline EXCEPT !.status = "ready"]
        ELSE NoDiscipline]

ProcessedEvents ==
    [c \in DISCIPLINE_CODES |-> IF ProcessedDisciplines[c].exists THEN 1 ELSE 0]

\* The service after start-up: an empty registry and no task.  The database
\* is that of a project never processed, or the one an earlier page job left.
Init ==
    /\ \/ /\ pages = FreshPages
          /\ discs = FreshDisciplines
          /\ readyEvents = ZeroCount
          /\ pass2_failed = {}
       \/ /\ pages = ProcessedPages
          /\ discs = ProcessedDisciplines
          /\ readyEvents = ProcessedEvents
          /\ pass2_failed = {}
    /\ pointers = Pages
    /\ activeJob = NoJob
    /\ jobsCreated = 0
    /\ runs = NoRuns
    /\ loopOwner = 0
    /\ response = NoResponse
    /\ budget = MaxEvents
    /\ oracle = ExactOracle
    /\ sse_subscribers = << >>
    /\ file_ids = Pages
    /\ json_call = NoCall
    /\ pass3Runs = ZeroCount

PageStep(j) ==
    \/ StartProcessing(j)
    \/ RetryPass1(j)
    \/ \E p \in Pages : Pass1Begin(j, p)
    \/ \E p \in Pages : Pass1Done(j, p)
    \/ Pass1Join(j)
    \/ Resolve(j)
    \/ SelectPass2(j)
    \/ Pass2Begin(j)
    \/ Pass2Done(j)
    \/ Propagate(j)
    \/ Sweep(j)
    \/ Finish(j)

DisciplineStep(j) ==
    \/ ProcessQueue(j)
    \/ QueryReady(j)
    \/ ProcessReady(j)
    \/ Pass3Done(j)

Next ==
    \/ TriggerPages
    \/ TriggerDisciplines
    \/ reset_page_processing
    \/ \E j \in JobIds : PageStep(j) \/ StartDisciplines(j) \/ DisciplineStep(j)

Spec == Init /\ [][Next]_vars

Earlier ==
    LET \* How far an earlier run, interrupted or not, brought a page: no row, a
        \* row, Pass 1 done, Pass 2 done; and the status and retry count it left.
        Stages == {"none", "row", "pass1", "pass2"}
        RetryCounts == 0..max_retries
        StageStatuses(stage) ==
            CASE stage = "none" -> {"unprocessed"}
              [] stage = "row" -> {"unprocessed", "pass1_processing", "error"}
              [] stage = "pass1" -> {"pass1_complete", "pass2_processing", "error",
                                     "unprocessed", "pass1_processing"}
              [] OTHER -> {"pass2_complete"}
    IN  {h \in [Pages -> [stage : Stages, status : PageStatuses, retry_count : RetryCounts]] :
            \A p \in Pages : /\ h[p].status \in StageStatuses(h[p].stage)
                             /\ h[p].stage = "none" => h[p].retry_count = 0}

\* The rows the earlier run left.
ResumedPages(h) ==
    LET Reached(p, stages) == h[p].stage \in stages
        created == [p \in Pages |->
                        IF Reached(p, {"none"}) THEN NoPage ELSE NewPage(FileSheet(p))]
        pass1 == [p \in Pages |->
                        IF Reached(p, {"pass1", "pass2"})
                        THEN Pass1Success(created[p], p, TitleBlock(p))
                        ELSE created[p]]
        resolved == IF \E p \in Pages : Reached(p, {"pass2"})
                    THEN compute_inbound_references(pass1) ELSE pass1
        pass2 == [p \in Pages |->
                        IF Reached(p, {"pass2"})
                        THEN Pass2Success(resolved[p],
                                Contextualised(resolved[p].pass1_output))
                        ELSE resolved[p]]
    IN  [p \in Pages |->
            IF Reached(p, {"none"}) THEN NoPage
            ELSE [pass2[p] EXCEPT
                    !.status = h[p].status,
                    !.retry_count = h[p].retry_count,
                    !.error_message = IF h[p].status # "error" THEN ""
                                      ELSE IF Reached(p, {"row"}) THEN "pass1"
                                      ELSE "pass2"]]

ResumedDisciplines(pg) ==
    [c \in DISCIPLINE_CODES |->
        IF DisciplinePages(pg, c) = {} THEN NoDiscipline
        ELSE IF DisciplinePages(pg, c) \subseteq Pass2CompletePages(pg)
             THEN [NewDiscipline EXCEPT !.status = "ready"]
             ELSE NewDiscipline]

ResumedFailures(h) ==
    {p \in Pages : h[p].stage = "pass1" /\ h[p].status \in {"error", "unprocessed",
                                                             "pass1_processing"}}

\* One page run, scheduled by the trigger ("pages") or called as
\* process_project_context_tree ("tree"), on the rows an earlier run left.
InitRun ==
    /\ \E h \in Earlier :
            /\ pages = ResumedPages(h)
            /\ pass2_failed = ResumedFailures(h)
    /\ pointers \in SUBSET Pages
    /\ discs = ResumedDisciplines(pages)
    /\ \E kind \in {"pages", "tree"} :
            /\ runs = [NoRuns EXCEPT ![1] = NewRun(kind)]
            /\ activeJob = IF kind = "pages" THEN [job_id |-> 1, type |-> "pages"]
                            ELSE NoJob
    /\ jobsCreated = 1
    /\ loopOwner = 0
    /\ response = NoResponse
    /\ budget = MaxOracleFailures
    /\ oracle = AnyOracle
    /\ sse_subscribers = << >>
    /\ file_ids = Pages
    /\ json_call = NoCall
    /\ readyEvents = ZeroCount
    /\ pass3Runs = ZeroCount

NextRun == \E j \in JobIds : PageStep(j) \/ DisciplineStep(j)

SpecRun == InitRun /\ [][NextRun]_vars

\* A full run: the same, on a project never processed.  The caller of
\* process_project_context_tree chooses concurrency_limit; the router passes 5.
InitFullRun ==
    /\ pages = FreshPages
    /\ pass2_failed = {}
    /\ pointers \in SUBSET Pages
    /\ discs = FreshDisciplines
    /\ \E kind \in {"pages", "tree"} :
            /\ \E limit \in IF kind = "tree" THEN {1, concurrency_limit}
                                              ELSE {concurrency_limit} :
                    runs = [NoRuns EXCEPT ![1] = [NewRun(kind) EXCEPT
                                                    !.concurrency_limit = limit]]
            /\ activeJob = IF kind = "pages" THEN [job_id |-> 1, type |-> "pages"]
                            ELSE NoJob
    /\ jobsCreated = 1
    /\ loopOwner = 0
    /\ response = NoResponse
    /\ budget = MaxOracleFailures
    /\ oracle = SharedOracle
    /\ sse_subscribers = << >>
    /\ file_ids = Pages
    /\ json_call = NoCall
    /\ readyEvents = ZeroCount
    /\ pass3Runs = ZeroCount

SpecFullRun == InitFullRun /\ [][NextRun]_vars

SpecFullRunFair == SpecFullRun /\ WF_vars(NextRun)

\* GET discipline-contexts?ensure_exist=true, served by a worker thread: the
\* query for the project's disciplines, and _create_default_disciplines when
\* the query returned none.
list_discipline_contexts ==
    /\ \/ /\ response.op # "discipline-contexts" \/ response.status # "none"
          /\ response' = [op |-> "discipline-contexts", job_id |-> 0,
                          status |-> IF \E c \in DISCIPLINE_CODES : discs[c].exists
                                     THEN "listed" ELSE "none"]
          /\ response' # response
          /\ UNCHANGED discs
       \/ /\ response.op = "discipline-contexts"
          /\ response.status = "none"
          /\ discs' = commit_added(discs, DISCIPLINE_CODES)
          /\ response' = [response EXCEPT !.status = IF discs' = discs THEN "failed"
                                                     ELSE "created"]
    /\ UNCHANGED << json_call, file_ids, sse_subscribers, oracle, pages, pointers, activeJob,
                    jobsCreated, runs, loopOwner, budget, readyEvents, pass3Runs,
                    pass2_failed >>

NextList == NextRun \/ list_discipline_contexts

\* A full run while the Disciplines tab of the client lists the disciplines.
SpecList == InitFullRun /\ [][NextList]_vars

OutboundRefs == {Ref(M_201, "sheet"), Ref(M201, "detail"), Ref(Detail_3_A_101, "detail"),
                 Ref(a_dot_101, "sheet"), Ref(a_space_101, "sheet"),
                 Ref(X_305, "sheet"), Ref(NoString, "sheet"),
                 Ref(Dash, "detail")}

InitResolve ==
    LET \* What Pass 1 may have left on the pages when the resolver runs.
        SheetNumbers == {NoString, A_101, a_dot_101, M_201, Dash}
        RefLists == {<< >>} \cup {<< r >> : r \in OutboundRefs}
                        \cup {<< r, q >> : r \in OutboundRefs, q \in OutboundRefs}
        AnalysedPage(status, sheet, refs) ==
            [NewPage(sheet) EXCEPT
                !.status = status,
                !.discipline_code = "A",
                !.pass1_output = [present |-> TRUE, discipline |-> "A",
                                  sheet_number |-> sheet, refs |-> refs]]
    IN  /\ pages \in [Pages -> {AnalysedPage(st, sh, refs) :
                                    st \in {"pass1_complete", "pass2_complete"},
                                    sh \in SheetNumbers, refs \in RefLists}]
        /\ pass2_failed = {}
        /\ pointers = Pages
        /\ discs = ResumedDisciplines(pages)
        /\ runs = [NoRuns EXCEPT ![1] = [NewRun("pages") EXCEPT !.pc = "resolve"]]
        /\ activeJob = [job_id |-> 1, type |-> "pages"]
        /\ jobsCreated = 1
        /\ loopOwner = 1
        /\ response = NoResponse
        /\ budget = 0
        /\ oracle = AnyOracle
        /\ sse_subscribers = << >>
        /\ file_ids = Pages
        /\ json_call = NoCall
        /\ readyEvents = ZeroCount
        /\ pass3Runs = ZeroCount

NextResolve == \E j \in JobIds : Resolve(j)

SpecResolve == InitResolve /\ [][NextResolve]_vars

\* The event loop runs a coroutine that can take a step, and an oracle call
\* returns, with an answer or with an error.
SpecRunFair == SpecRun /\ WF_vars(NextRun)

\* ------------------------------------------------------------------ C1
\* A background task that has begun its run and has not returned.
Running(j) == runs[j].pc \notin {"idle", "created", "done"}

RunningJobs(kind) == {j \in JobIds : Running(j) /\ runs[j].kind = kind}

\* C1: for any interleaving of triggers and job completions, at most one job
\* of each kind is executing at any time, and a trigger of kind K answered
\* while a kind-K job is executing starts no second run of that kind.
C1_OneJobPerKind ==
    [][/\ \A kind \in {"pages", "disciplines"} :
            /\ Cardinality(RunningJobs(kind))' <= 1
            /\ (Trigger(kind, response'.op) /\ RunningJobs(kind) # {})
                    => /\ response'.status = "already_running"
                       /\ response'.job_id \in RunningJobs(kind)
                       /\ UNCHANGED runs]_vars

\* ------------------------------------------------------------------ C4
\* C4: in every state in which a job of either kind is executing, a reset is
\* rejected with a conflict and changes no page row and no discipline row.
C4_ResetRejectedWhileExecuting ==
    [][(reset_page_processing /\ \E j \in JobIds : Running(j))
            => /\ response'.status = "conflict"
               /\ UNCHANGED << pages, discs >>]_vars

\* ------------------------------------------------------------------ C2
\* C2: in every reachable state every page's status is one of the six enum
\* values, a page in pass1_complete, pass2_processing or pass2_complete has
\* its pass1_output, and a page in pass2_complete has its pass2_output.
C2_StatusImpliesOutput ==
    \A p \in Rows(pages) :
        /\ pages[p].status \in PageStatuses
        /\ pages[p].status \in {"pass1_complete", "pass2_processing", "pass2_complete"}
                => pages[p].pass1_output.present
        /\ pages[p].status = "pass2_complete" => pages[p].pass2_output.present

\* C3: start_processing always terminates, the sweep-and-retry loop
\* performs at most max_retries retry iterations, and when it ends every page
\* that is not pass2_complete has been reported as permanently failed.
C3_TerminatesAndReportsAll ==
    LET \* start_processing has returned
        Returns(j) == runs[j].pc \in {"finish", "process_queue", "query_ready", "process_ready",
                                      "pass3_call_queue", "pass3_call_ready", "done"}
    IN  /\ <>Returns(1)
        /\ [](runs[1].iterations <= max_retries)
        /\ [](runs[1].pc = "finish"
                => \A p \in Rows(pages) :
                        pages[p].status # "pass2_complete" => p \in runs[1].failed)

\* ------------------------------------------------------------------ C5
\* C5: between two resets the discipline_ready event is emitted at most once
\* per discipline and run_pass3 is executed at most once per discipline.
C5_ReadyAndAggregatedOnce ==
    \A c \in DISCIPLINE_CODES : readyEvents[c] <= 1 /\ pass3Runs[c] <= 1

\* ------------------------------------------------------------------ C6
\* the outbound references of the other pages that name page b
ReferencesTo(pg, b) ==
    {e \in {[page |-> a, index |-> i] : a \in Rows(pg) \ {b}, i \in 1..NumPages} :
        /\ e.index \in DOMAIN pg[e.page].pass1_output.refs
        /\ normalize_sheet_ref(pg[e.page].pass1_output.refs[e.index].ref) # NoString
        /\ normalize_sheet_ref(pg[e.page].pass1_output.refs[e.index].ref)
                = normalize_sheet_ref(pg[b].sheet_number)}

\* C6: after a complete run of start_processing in which every page ends
\* pass2_complete, a page that is the target of exactly one outbound
\* reference of another page has exactly one inbound_references entry, whose
\* source_sheet is the referencing page's sheet number.
C6_OneInboundEntryAfterFullRun ==
    (runs[1].pc = "finish" /\ Rows(pages) = Pass2CompletePages(pages))
        => \A b \in Rows(pages) : \A e \in ReferencesTo(pages, b) :
                ReferencesTo(pages, b) = {e}
                    => /\ Len(pages[b].inbound_references.entries) = 1
                       /\ pages[b].inbound_references.entries[1].source_sheet
                                = pages[e.page].sheet_number

\* ------------------------------------------------------------------ C7
\* the outbound references, of any pass1_complete page, that name page b
Inverted(pg, b) ==
    {e \in {[page |-> a, index |-> i] : a \in Pass1CompletePages(pg), i \in 1..2} :
        /\ e.index \in DOMAIN pg[e.page].pass1_output.refs
        /\ normalize_sheet_ref(pg[e.page].pass1_output.refs[e.index].ref) # NoString
        /\ normalize_sheet_ref(pg[e.page].pass1_output.refs[e.index].ref)
                = normalize_sheet_ref(pg[b].sheet_number)}

\* entry k of page b is the inversion of the outbound reference e
InvertedAs(pg, b, k, e) ==
    LET entry == pg[b].inbound_references.entries[k]
        ref == pg[e.page].pass1_output.refs[e.index]
    IN  /\ entry.source_sheet = pg[e.page].sheet_number
        /\ entry.source_page_id = e.page
        /\ entry.type = ref.type
        /\ entry.original_ref = ref.ref

\* page b is the only pass1_complete page with its normalized sheet number
OnlyPageOfItsSheet(pg, b) ==
    /\ normalize_sheet_ref(pg[b].sheet_number) # NoString
    /\ \A q \in Pass1CompletePages(pg) \ {b} :
            normalize_sheet_ref(pg[q].sheet_number) # normalize_sheet_ref(pg[b].sheet_number)

\* C7: compute_inbound_references is an exact edge inversion over the
\* pass1_complete pages: the inbound_references of a page B that is the only
\* page with its normalized sheet number hold exactly one entry for each
\* outbound reference of a page A whose normalized form is B's normalized
\* sheet number, with A's sheet number, the reference's type and its original
\* string, and no other entry; a reference that names no known sheet leaves
\* no entry anywhere.
C7_ExactEdgeInversion ==
    runs[1].pc = "select_pass2" =>
        \A b \in Pass1CompletePages(pages) :
            LET entries == pages[b].inbound_references.entries
            IN  /\ pages[b].inbound_references.present
                /\ \A k \in DOMAIN entries : \E e \in Inverted(pages, b) :
                        InvertedAs(pages, b, k, e)
                /\ OnlyPageOfItsSheet(pages, b) =>
                        \E f \in [DOMAIN entries -> Inverted(pages, b)] :
                            /\ \A k \in DOMAIN entries : InvertedAs(pages, b, k, f[k])
                            /\ \A e \in Inverted(pages, b) :
                                    Cardinality({k \in DOMAIN entries : f[k] = e}) = 1

\* page 2 alone carries M-201; page 1 names it twice, in two spellings, next
\* to a sheet that is not in the set: two entries, from page 1
C7_Witness ==
    /\ runs[1].pc = "select_pass2"
    /\ OnlyPageOfItsSheet(pages, 2)
    /\ pages[1].status = "pass1_complete"
    /\ pages[1].sheet_number = A_101
    /\ pages[1].pass1_output.refs = << Ref(M201, "detail"), Ref(X_305, "sheet") >>
    /\ pages[2].pass1_output.refs = << Ref(M_201, "sheet"), Ref(Detail_3_A_101, "detail") >>
    /\ Len(pages[2].inbound_references.entries) = 2
    /\ Len(pages[1].inbound_references.entries) = 1

\* C8: when a page-processing job finishes, started through the trigger or
\* through process_project_context_tree, every discipline whose assigned pages
\* are all pass2_complete has been aggregated: it is complete or error, not
\* waiting or ready.
C8_AggregatedWhenJobFinishes ==
    [][LET Complete(pg, ds) ==
            {c \in DISCIPLINE_CODES : /\ ds[c].exists
                                      /\ DisciplinePages(pg, c) # {}
                                      /\ DisciplinePages(pg, c) \subseteq Pass2CompletePages(pg)}
       IN  \A j \in JobIds :
                (runs[j].kind \in {"pages", "tree"} /\ Executing(j) /\ runs'[j].pc = "done")
                    => \A c \in Complete(pages', discs') :
                            discs'[c].status \notin {"waiting", "ready"}]_vars

\* ------------------------------------------------------------------ C9
\* C9: a page in status error whose retry_count has reached max_retries is
\* terminal: no step of a pipeline run changes its status again.
C9_ErrorAtBudgetIsTerminal ==
    [][\A p \in Rows(pages) :
            (pages[p].status = "error" /\ pages[p].retry_count >= max_retries)
                => pages'[p].status = "error"]_vars

\* C10: a run of start_processing does not execute Pass 1 on a page whose
\* Pass 1 has completed since the last reset, also when the Pass 2 attempt on
\* that page failed, and does not execute Pass 2 on a page that is
\* pass2_complete.
C10_NoCompletedPassRedone ==
    [][LET \* a Pass 1 task of p leaves the queue for its oracle call
           Pass1Begins(p) ==
                \E j \in JobIds : runs[j].tasks[p] = "queued" /\ runs'[j].tasks[p] = "calling"
           \* run_pass2 calls process_pass2 for p
           Pass2Begins(p) ==
                \E j \in JobIds : /\ runs[j].pc = "pass2_begin" /\ runs'[j].pc = "pass2_call"
                                  /\ Head(runs[j].page_ids) = p
       IN  \A p \in Pages :
                /\ Pass1Begins(p) => ~pages[p].pass1_output.present
                /\ Pass2Begins(p) => pages[p].status # "pass2_complete"]_vars

\* ----------------------------------------------------------------- C11
\* C11: when the last request answered was a process-pages trigger that
\* started a job, that job is running and the next request is again a
\* process-pages trigger, the second one returns the same job_id with status
\* already_running and launches no run.
C11_DuplicateTriggerSameJob ==
    [][(/\ response.op = "process-pages"
        /\ response.status = "started"
        /\ Running(response.job_id)
        /\ TriggerPages)
            => /\ response' = [op |-> "process-pages", job_id |-> response.job_id,
                               status |-> "already_running"]
               /\ UNCHANGED runs]_vars

\* ----------------------------------------------------------------- C12
\* How a phase leaves a page it selected: with the status of success, or as
\* error with a message and an "error" event for it.
Settled(row, p, events, success) ==
    /\ row.status \in {success, "error"}
    /\ row.status = "error" <=> p \in events
    /\ row.status = "error" => row.error_message # ""

MaxSubscribers == 2
MaxQueueSteps == 4

\* event types the jobs broadcast
EventTypes == {"page_pass1_complete", "error", "processing_complete"}

\* everything but the subscribers and the step budget
PipelineVars ==
    << pages, pointers, discs, activeJob, jobsCreated, runs, loopOwner, response,
       oracle, readyEvents, pass3Runs, pass2_failed, file_ids >>

\* a job's progress callback, or its completion, broadcasts an event
Broadcast(item) ==
    /\ budget > 0
    /\ budget' = budget - 1
    /\ sse_subscribers' = broadcast_event(sse_subscribers, item)
    /\ UNCHANGED << json_call, PipelineVars >>

\* _subscribe_sse, called by stream_processing_progress
subscribe_sse ==
    /\ budget > 0
    /\ Len(sse_subscribers) < MaxSubscribers
    /\ budget' = budget - 1
    /\ sse_subscribers' = Append(sse_subscribers, << >>)
    /\ UNCHANGED << json_call, PipelineVars >>

\* _unsubscribe_sse, in the finally of event_generator
unsubscribe_sse(i) ==
    /\ i \in DOMAIN sse_subscribers
    /\ sse_subscribers' = SubSeq(sse_subscribers, 1, i - 1)
                            \o SubSeq(sse_subscribers, i + 1, Len(sse_subscribers))
    /\ UNCHANGED << json_call, budget, PipelineVars >>

\* event_generator takes the next event of its queue
QueueGet(i) ==
    /\ budget > 0
    /\ i \in DOMAIN sse_subscribers
    /\ sse_subscribers[i] # << >>
    /\ budget' = budget - 1
    /\ sse_subscribers' = [sse_subscribers EXCEPT ![i] = Tail(@)]
    /\ UNCHANGED << json_call, PipelineVars >>

\* A queue that n broadcasts have filled while its client did not read.
Backlog(n) ==
    [i \in 1..n |-> IF i % 2 = 1 THEN "page_pass1_complete" ELSE "error"]

\* The subscribers of a project whose pages have been processed, with
\* clients that have read all, nearly all, or nearly none of the events.
InitBroadcast ==
    LET Backlogs == {Backlog(0), Backlog(1), Backlog(maxsize - 1), Backlog(maxsize)}
    IN  /\ pages = ProcessedPages
        /\ discs = ProcessedDisciplines
        /\ readyEvents = ProcessedEvents
        /\ pass2_failed = {}
        /\ pointers = Pages
        /\ activeJob = NoJob
        /\ jobsCreated = 0
        /\ runs = NoRuns
        /\ loopOwner = 0
        /\ response = NoResponse
        /\ oracle = ExactOracle
        /\ pass3Runs = ZeroCount
        /\ budget = MaxQueueSteps
        /\ file_ids = Pages
        /\ json_call = NoCall
        /\ \E n \in 0..MaxSubscribers : sse_subscribers \in [1..n -> Backlogs]

NextBroadcast ==
    \/ \E item \in EventTypes : Broadcast(item)
    \/ subscribe_sse
    \/ \E i \in 1..MaxSubscribers : unsubscribe_sse(i)
    \/ \E i \in 1..MaxSubscribers : QueueGet(i)

SpecBroadcast == InitBroadcast /\ [][NextBroadcast]_vars

\* ----------------------------------------------------------------- C13
\* C13: a broadcast is always possible and changes nothing but the queues:
\* every subscriber queue holds at most 100 events; a broadcast appends the
\* event to each queue that is not full and leaves a full queue exactly as it
\* was, whatever the other queues hold; it changes no page and no discipline
\* row.
C13_BestEffortBroadcast ==
    [][/\ \A i \in DOMAIN sse_subscribers' : Len(sse_subscribers'[i]) <= 100
       /\ \A item \in EventTypes :
            Broadcast(item) =>
                /\ DOMAIN sse_subscribers' = DOMAIN sse_subscribers
                /\ \A i \in DOMAIN sse_subscribers :
                        sse_subscribers'[i] =
                            IF Len(sse_subscribers[i]) = 100
                            THEN sse_subscribers[i]
                            ELSE sse_subscribers[i] \o << item >>
                /\ UNCHANGED << pages, discs >>]_vars

\* A broadcast has met a full queue next to one with room: the full queue
\* is as it was and the other has received the event.
C13_Witness ==
    /\ Len(sse_subscribers) = 2
    /\ sse_subscribers[1] = Backlog(maxsize)
    /\ sse_subscribers[2] = Backlog(1) \o << "processing_complete" >>
    /\ budget < MaxQueueSteps

\* --------------------------------------------------------- status query
\* _count_page_statuses: the rows of pages that carry pointers, by status
count_page_statuses(pg, ptr) ==
    LET counted == {p \in Rows(pg) : p \in ptr}
        Count(statuses) == Cardinality({p \in counted : pg[p].status \in statuses})
    IN  IF ptr = {}
        THEN [total |-> 0, unprocessed |-> 0, pass1_complete |-> 0, pass2_complete |-> 0]
        ELSE [total |-> Cardinality(counted),
              unprocessed |-> Count({"unprocessed", "error"}),
              pass1_complete |-> Count({"pass1_complete"}),
              pass2_complete |-> Count({"pass2_complete"})]

\* _determine_pages_status
determine_pages_status(counts, job) ==
    IF job # NoJob /\ job.type = "pages" THEN "processing"
    ELSE IF counts.total = 0 THEN "idle"
    ELSE IF counts.pass2_complete = counts.total THEN "complete"
    ELSE "idle"

\* get_processing_status: the derived overall status of the pages
PagesStatus == determine_pages_status(count_page_statuses(pages, pointers), activeJob)

\* ----------------------------------------------------------------- C14
\* C14: in every state the status query answers processing when a page job
\* is executing; otherwise complete when there is an annotated page and every
\* annotated page is pass2_complete; otherwise idle.  (A job that is
\* scheduled and has not begun may be reported either way.)
C14_StatusQueryIsTrue ==
    IF RunningJobs("pages") # {} THEN PagesStatus = "processing"
    ELSE IF \E j \in JobIds : Executing(j) /\ runs[j].kind = "pages"
         THEN PagesStatus \in {"processing", "complete", "idle"}
    ELSE IF /\ pointers # {}
            /\ \A p \in pointers : pages[p].exists /\ pages[p].status = "pass2_complete"
         THEN PagesStatus = "complete"
    ELSE PagesStatus = "idle"

\* ----------------------------------------------- files and the reset
\* delete_file (DELETE /files/{file_id}): the file's page rows and pointers
\* go with it (cascade="all, delete-orphan"); discipline rows belong to the
\* project and stay.
delete_file(p) ==
    /\ p \in file_ids
    /\ file_ids' = file_ids \ {p}
    /\ pages' = [pages EXCEPT ![p] = NoPage]
    /\ pointers' = pointers \ {p}
    /\ pass2_failed' = pass2_failed \ {p}
    /\ UNCHANGED << json_call, sse_subscribers, oracle, discs, activeJob, jobsCreated, runs,
                    loopOwner, response, budget, readyEvents, pass3Runs >>

\* The service with no job, on the rows earlier runs left.
InitReset ==
    LET \* The discipline rows once process_all_ready has aggregated the ready ones.
        AggregatedDisciplines(ds) ==
            [c \in DISCIPLINE_CODES |->
                IF ds[c].exists /\ ds[c].status = "ready" THEN Pass3Success(ds[c]) ELSE ds[c]]
    IN  /\ \E h \in Earlier :
                /\ pages = ResumedPages(h)
                /\ pass2_failed = ResumedFailures(h)
        /\ pointers \in SUBSET Pages
        /\ discs \in {ResumedDisciplines(pages), AggregatedDisciplines(ResumedDisciplines(pages))}
        /\ runs = NoRuns
        /\ activeJob = NoJob
        /\ jobsCreated = 0
        /\ loopOwner = 0
        /\ response = NoResponse
        /\ budget = MaxEvents
        /\ oracle = AnyOracle
        /\ sse_subscribers = << >>
        /\ file_ids = Pages
        /\ json_call = NoCall
        /\ readyEvents = ZeroCount
        /\ pass3Runs = ZeroCount

NextReset ==
    \/ reset_page_processing
    \/ \E p \in Pages : delete_file(p)

SpecReset == InitReset /\ [][NextReset]_vars

\* ----------------------------------------------------------------- C15
\* C15: a reset carried out while no job is active leaves every page row
\* unprocessed with retry_count 0 and no pass1_output, pass2_output,
\* inbound_references, discipline_code or error_message, and every
\* discipline row waiting with its description cleared.
C15_ResetClearsEverything ==
    [][(reset_page_processing /\ activeJob = NoJob /\ \A j \in JobIds : ~Executing(j))
            => /\ \A p \in Rows(pages') :
                    /\ pages'[p].status = "unprocessed"
                    /\ pages'[p].retry_count = 0
                    /\ pages'[p].pass1_output = NoPass1
                    /\ pages'[p].pass2_output = NoPass2
                    /\ pages'[p].inbound_references = NoInbound
                    /\ pages'[p].discipline_code = ""
                    /\ pages'[p].error_message = ""
               /\ \A c \in DISCIPLINE_CODES :
                    discs'[c].exists => /\ discs'[c].status = "waiting"
                                        /\ ~discs'[c].described]_vars

\* ----------------------------------------------------------------- C16
\* C16: a run of start_processing creates no row for a page without
\* annotation, changes neither the status, the retry_count nor the pass
\* outputs of an existing row of such a page, and does not report such a
\* page as permanently failed.
C16_UnannotatedPagesUntouched ==
    [][\A p \in Pages \ pointers :
            /\ pages'[p].exists = pages[p].exists
            /\ pages'[p].status = pages[p].status
            /\ pages'[p].retry_count = pages[p].retry_count
            /\ pages'[p].pass1_output = pages[p].pass1_output
            /\ pages'[p].pass2_output = pages[p].pass2_output
            /\ \A j \in JobIds : p \notin runs'[j].failed]_vars

\* ----------------------------------------------------------------- C17
\* the refs of a sequence of records with a ref field, in order
RefsOf(entries) == [i \in DOMAIN entries |-> entries[i].ref]

\* C17: whatever the oracle answers, when process_pass2 succeeds on a page the
\* refs of the pass2_output.outbound_refs_context it stores are the outbound
\* references recorded in the page's pass1_output, one entry for each.
C17_Pass2InventsNoReference ==
    [][\A p \in Pages :
        (pages[p].status = "pass2_processing" /\ pages'[p].status = "pass2_complete")
            => RefsOf(pages'[p].pass2_output.outbound_refs_context)
                    = RefsOf(pages'[p].pass1_output.refs)]_vars

\* ----------------------------------------------------------------- C18
\* the spellings of one sheet reference
Spellings == {A_101, A101, a_dot_101, a_space_101}

\* the length of the strings normalize_sheet_ref is tried on
MaxLen == 3

\* On every string of up to MaxLen characters of a sheet reference:
\* normalize_sheet_ref is idempotent, and gives one key to two strings without
\* '/' that differ only in separators and letter case.
NormalizeIsEquivalence ==
    LET Alphabet == {"A", "a", "1", "-", ".", " ", "/"}
        ShortStrings == UNION {[1..n -> Alphabet] : n \in 0..MaxLen}
        SameSheetSpelling(s, t) ==
            /\ ~HasSlash(s)
            /\ ~HasSlash(t)
            /\ SelectSeq(UpperStr(s), NotSeparator) = SelectSeq(UpperStr(t), NotSeparator)
    IN  /\ \A s \in Spellings : normalize_sheet_ref(s) = A101
        /\ normalize_sheet_ref(Detail_3_A_101) = normalize_sheet_ref(A_101)
        /\ \A s \in ShortStrings \cup Spellings \cup {Detail_3_A_101} :
                normalize_sheet_ref(normalize_sheet_ref(s)) = normalize_sheet_ref(s)
        /\ \A s, t \in ShortStrings :
                SameSheetSpelling(s, t) => normalize_sheet_ref(s) = normalize_sheet_ref(t)

\* C18: normalize_sheet_ref maps "A-101", "A101", "a.101" and "a 101" to the
\* same key, maps two references that differ only in separators and case to
\* the same key, maps the detail callout "3/A-101" to the key of "A-101", and
\* is idempotent; and once the resolver has run, a reference written in any
\* of these spellings has an inbound entry on the page whose sheet number is
\* written in any of them (the only page of that sheet).
C18_SpellingsResolveAlike ==
    /\ NormalizeIsEquivalence
    /\ runs[1].pc = "select_pass2" =>
        \A b \in Pass1CompletePages(pages), a \in Pass1CompletePages(pages) :
            \A i \in DOMAIN pages[a].pass1_output.refs :
                (/\ pages[b].sheet_number \in Spellings
                 /\ OnlyPageOfItsSheet(pages, b)
                 /\ pages[a].pass1_output.refs[i].ref \in Spellings \cup {Detail_3_A_101})
                    => \E k \in DOMAIN pages[b].inbound_references.entries :
                            InvertedAs(pages, b, k, [page |-> a, index |-> i])

\* The resolver has run: the callout "3/A-101" and the spelling "a 101" on
\* page 1 have become inbound entries of page 2, whose sheet number is
\* written "a.101".
C18_Witness ==
    /\ runs[1].pc = "select_pass2"
    /\ pages[1].status = "pass1_complete"
    /\ pages[1].sheet_number = M_201
    /\ pages[1].pass1_output.refs = << Ref(Detail_3_A_101, "detail"), Ref(a_space_101, "sheet") >>
    /\ pages[2].sheet_number = a_dot_101
    /\ Len(pages[2].inbound_references.entries) = 2

\* ---------------------------------------------------------- oracle call
\* One _call_gemini_json of process_pass1, attempt by attempt.
MAX_RETRIES == 3
BASE_DELAY == 1

\* the exceptions _retry_with_backoff catches by name
RetriedExceptions == {"ResourceExhausted", "DeadlineExceeded", "ServiceUnavailable"}

\* _call_gemini_json up to _retry_with_backoff
call_gemini_json ==
    /\ json_call.pc = "called"
    /\ \/ json_call' = [json_call EXCEPT !.pc = "generate"]
       \/ json_call' = [json_call EXCEPT !.pc = "raised", !.raised = "RuntimeError"]
    /\ UNCHANGED << budget, sse_subscribers, PipelineVars >>

\* one iteration of the for loop of _retry_with_backoff up to its return,
\* its sleep or its raise
generate_content ==
    LET \* what generate_content can raise: those, an invalid-argument rejection, or
        \* anything else
        OracleExceptions == RetriedExceptions \cup {"InvalidArgument", "PermissionDenied"}
        \* response.text: JSON that parses, JSON cut off near its end, or text that
        \* is not JSON
        ResponseTexts == {"valid", "truncated", "malformed"}
    IN  /\ json_call.pc = "generate"
        /\ \/ \E text \in ResponseTexts :
                json_call' = [json_call EXCEPT !.requests = @ + 1,
                                               !.text = text,
                                               !.pc = "parse"]
           \/ \E e \in RetriedExceptions :
                json_call' = [json_call EXCEPT !.requests = @ + 1,
                                               !.failures = Append(@, e),
                                               !.last_exception = e,
                                               !.delays = Append(@, BASE_DELAY * 2 ^ json_call.attempt),
                                               !.pc = "sleep"]
           \/ \E e \in OracleExceptions \ RetriedExceptions :
                json_call' = [json_call EXCEPT !.requests = @ + 1,
                                               !.failures = Append(@, e),
                                               !.raised = e,
                                               !.pc = "raised"]
        /\ UNCHANGED << budget, sse_subscribers, PipelineVars >>

\* asyncio.sleep(delay) returns: the next attempt, or raise last_exception
\* once range(MAX_RETRIES) is exhausted
sleep ==
    /\ json_call.pc = "sleep"
    /\ json_call' = IF json_call.attempt + 1 < MAX_RETRIES
                    THEN [json_call EXCEPT !.attempt = @ + 1, !.pc = "generate"]
                    ELSE [json_call EXCEPT !.attempt = @ + 1, !.pc = "raised",
                                           !.raised = json_call.last_exception]
    /\ UNCHANGED << budget, sse_subscribers, PipelineVars >>

\* json.loads(_clean_json_response(result)) and the re-raise of its error
json_loads ==
    /\ json_call.pc = "parse"
    /\ json_call' = IF json_call.text = "valid"
                    THEN [json_call EXCEPT !.pc = "returned"]
                    ELSE [json_call EXCEPT !.pc = "raised", !.raised = "JSONDecodeError"]
    /\ UNCHANGED << budget, sse_subscribers, PipelineVars >>

\* process_pass1 after the call: the commit of the answer, or its two except
\* branches (the second overwrites the message of the first with str(e))
process_pass1_after_call ==
    /\ json_call.pc \in {"returned", "raised"}
    /\ LET p == json_call.page
       IN  IF json_call.pc = "returned"
           THEN \E answer \in oracle[p] :
                    /\ pages' = [pages EXCEPT ![p] = Pass1Success(@, p, answer)]
                    /\ runs' = [runs EXCEPT ![1].tasks[p] = "done",
                                            ![1].discovered =
                                                @ \cup {ValidDiscipline(answer.discipline)}]
                    /\ pass2_failed' = pass2_failed \ {p}
           ELSE /\ pages' = [pages EXCEPT ![p] =
                                PassFailure(PassFailure(@, "Pass 1 Gemini error"),
                                            json_call.raised)]
                /\ runs' = [runs EXCEPT ![1].tasks[p] = "done",
                                        ![1].errors = @ \cup {p}]
                /\ UNCHANGED pass2_failed
    /\ json_call' = [json_call EXCEPT !.pc = "done"]
    /\ UNCHANGED << budget, sse_subscribers, oracle, pointers, discs, activeJob,
                    jobsCreated, loopOwner, response, readyEvents, pass3Runs, file_ids >>

\* process_pass1 of one selected page has reached its oracle call, in a run
\* over the rows earlier runs left.
InitCall ==
    /\ pointers = Pages
    /\ \E h \in Earlier :
            LET rows == ensure_page_contexts_exist(ResumedPages(h), pointers)
                selected == get_pages_for_processing(rows, pointers)
            IN  /\ pass2_failed = ResumedFailures(h)
                /\ discs = ResumedDisciplines(ResumedPages(h))
                /\ \E p \in selected :
                        /\ pages = [rows EXCEPT ![p].status = "pass1_processing"]
                        /\ runs = [NoRuns EXCEPT ![1] =
                                    [RunPass1(NewRun("pages"), selected, "resolve")
                                        EXCEPT !.tasks[p] = "calling"]]
                        /\ json_call = [NoCall EXCEPT !.pc = "called", !.page = p]
    /\ activeJob = [job_id |-> 1, type |-> "pages"]
    /\ jobsCreated = 1
    /\ loopOwner = 0
    /\ response = NoResponse
    /\ budget = 0
    /\ oracle = AnyOracle
    /\ sse_subscribers = << >>
    /\ file_ids = Pages
    /\ readyEvents = ZeroCount
    /\ pass3Runs = ZeroCount

NextCall ==
    \/ call_gemini_json
    \/ generate_content
    \/ sleep
    \/ json_loads
    \/ process_pass1_after_call

SpecCall == InitCall /\ [][NextCall]_vars

\* ----------------------------------------------------------------- C19
\* C19: the oracle call is attempted at most MAX_RETRIES times; an attempt
\* that fails with a rate-limit, timeout, service-unavailable or
\* invalid-argument failure is followed by a delay of BASE_DELAY * 2^attempt
\* and, while the budget lasts, by another attempt; any other failure is
\* raised by the attempt that met it; a response ends the attempts; and the
\* failure raised when the budget is exhausted is the last one, recorded on
\* the page as status error.
C19_RetryPolicy ==
    /\ json_call.requests <= MAX_RETRIES
    /\ Len(json_call.failures) <= json_call.requests
    /\ \A i \in DOMAIN json_call.failures :
            IF json_call.failures[i] \in RetriedExceptions \cup {"InvalidArgument"}
            THEN /\ i \in DOMAIN json_call.delays
                 /\ json_call.delays[i] = BASE_DELAY * 2 ^ (i - 1)
                 /\ (i < MAX_RETRIES /\ json_call.pc \notin {"sleep", "generate"})
                        => json_call.requests > i
            ELSE /\ i = Len(json_call.failures)
                 /\ json_call.raised = json_call.failures[i]
    /\ json_call.text # "None" => json_call.requests = Len(json_call.failures) + 1
    /\ (Len(json_call.failures) = MAX_RETRIES /\ json_call.pc \in {"raised", "done"})
            => json_call.raised = json_call.failures[MAX_RETRIES]
    /\ (json_call.pc = "done" /\ json_call.raised # "None")
            => /\ pages[json_call.page].status = "error"
               /\ pages[json_call.page].error_message = json_call.raised

\* ----------------------------------------------------------------- C20
\* C20: when the response of the oracle call does not parse and the parse
\* error is near the end of the text, exactly one further request has been
\* issued by the time the parse error is raised; and a parse error that is
\* raised is recorded on the page as status error with the diagnostic.
C20_TruncatedJsonRetriedOnce ==
    /\ (json_call.raised = "JSONDecodeError" /\ json_call.text = "truncated")
            => json_call.requests = Len(json_call.failures) + 2
    /\ (json_call.pc = "done" /\ json_call.raised = "JSONDecodeError")
            => /\ pages[json_call.page].status = "error"
               /\ pages[json_call.page].error_message = "JSONDecodeError"

\* ------------------------------------------------------ response cleaning
\* A text is the tuple of its characters; "'" stands for the backtick, which
\* a TLA+ string cannot hold.

\* str.strip()
strip(s) ==
    LET kept == {i \in DOMAIN s : s[i] \notin {" ", "\n", "\r", "\t"}}
        first == CHOOSE i \in kept : \A k \in kept : i <= k
        last == CHOOSE i \in kept : \A k \in kept : i >= k
    IN  IF kept = {} THEN << >> ELSE SubSeq(s, first, last)

\* the same block without the test of the last line
remove_code_fence_keeping_last_line(clean_result) ==
    LET newlines == {i \in DOMAIN clean_result : clean_result[i] = "\n"}
        first == CHOOSE i \in newlines : \A k \in newlines : i <= k
    IN  IF ~(Len(clean_result) >= 3 /\ SubSeq(clean_result, 1, 3) = << "'", "'", "'" >>)
        THEN clean_result
        ELSE IF newlines = {} THEN << >>
        ELSE SubSeq(clean_result, first + 1, Len(clean_result))

\* if clean_result.startswith("```"): split the lines, drop the first, drop
\* the last if it is a closing fence, join.  Dropping the first line of the
\* split is dropping the text up to the first newline; dropping the last is
\* dropping the text from the last newline on.
remove_code_fence(clean_result) ==
    LET newlines == {i \in DOMAIN clean_result : clean_result[i] = "\n"}
        first == CHOOSE i \in newlines : \A k \in newlines : i <= k
        rest == SubSeq(clean_result, first + 1, Len(clean_result))
        breaks == {i \in DOMAIN rest : rest[i] = "\n"}
        last == IF breaks = {} THEN 0
                ELSE CHOOSE i \in breaks : \A k \in breaks : i >= k
    IN  IF ~(Len(clean_result) >= 3 /\ SubSeq(clean_result, 1, 3) = << "'", "'", "'" >>)
        THEN clean_result
        ELSE IF newlines = {} THEN << >>
        ELSE IF strip(SubSeq(rest, last + 1, Len(rest))) = << "'", "'", "'" >>
             THEN SubSeq(rest, 1, last - 1)
        ELSE rest

\* _clean_json_response
clean_json_response(result) ==
    LET find(s, c) == IF \E i \in DOMAIN s : s[i] = c
                      THEN CHOOSE i \in DOMAIN s : s[i] = c /\ \A k \in 1..(i - 1) : s[k] # c
                      ELSE 0
        rfind(s, c) == IF \E i \in DOMAIN s : s[i] = c
                       THEN CHOOSE i \in DOMAIN s :
                                s[i] = c /\ \A k \in (i + 1)..Len(s) : s[k] # c
                       ELSE 0
        unfenced == remove_code_fence(strip(result))
        unticked == IF /\ unfenced # << >>
                       /\ Head(unfenced) = "'"
                       /\ unfenced[Len(unfenced)] = "'"
                       /\ ~(Len(unfenced) >= 3 /\ SubSeq(unfenced, 1, 3) = << "'", "'", "'" >>)
                    THEN SubSeq(unfenced, 2, Len(unfenced) - 1)
                    ELSE unfenced
        first_brace == find(unticked, "{")
        first_bracket == find(unticked, "[")
        extracted ==
            IF unticked # << >> /\ Head(unticked) \in {"{", "["} THEN unticked
            ELSE IF first_brace > 0 /\ (first_bracket = 0 \/ first_brace < first_bracket)
                 THEN IF rfind(unticked, "}") > first_brace
                      THEN SubSeq(unticked, first_brace, rfind(unticked, "}"))
                      ELSE unticked
            ELSE IF first_bracket > 0 /\ rfind(unticked, "]") > first_bracket
                 THEN SubSeq(unticked, first_bracket, rfind(unticked, "]"))
            ELSE unticked
    IN  strip(extracted)

\* JSON texts of an answer: objects and arrays, on one line or several
JsonTexts ==
    {<< "{", "}" >>, << "{", "a", "}" >>, << "{", "\n", " ", "a", "\n", "}" >>,
     << "[", "a", "]" >>, << "[", "{", "a", "}", "]" >>, << "{", "[", "a", "]", "}" >>,
     << "{", "'", "}" >>}

\* the text in a markdown fence with the given language line and tail
Fenced(language, text, tail) ==
    << "'", "'", "'" >> \o language \o << "\n" >> \o text \o << "\n", "'", "'", "'" >> \o tail

\* The fenced forms of a text: ```json or bare ```, the closing fence followed
\* by nothing, by a newline or by a blank.
FencedForms(text) ==
    {Fenced(language, text, tail) :
        language \in {<< >>, << "j", "s", "o", "n" >>}, tail \in {<< >>, << "\n" >>, << " " >>}}

\* clean_result = _clean_json_response(result) in _call_gemini_json
clean_response ==
    /\ json_call.pc = "parse"
    /\ json_call.response # << >>
    /\ json_call' = [json_call EXCEPT !.clean_result = clean_json_response(json_call.response),
                                      !.pc = "cleaned"]
    /\ UNCHANGED << budget, sse_subscribers, PipelineVars >>

\* _retry_with_backoff has returned the text of a response to the Pass 1
\* prompt of a page.
InitClean ==
    LET \* What the oracle can send for a text: the text, its fenced forms, the text
        \* in single backticks, and the text inside a sentence.
        Responses(text) ==
            {text, << "'" >> \o text \o << "'" >>, << "a", " " >> \o text \o << " ", "a" >>}
                \cup FencedForms(text)
    IN  /\ pointers = Pages
        /\ discs = FreshDisciplines
        /\ pass2_failed = {}
        /\ \E p \in Pages, text \in JsonTexts :
                /\ pages = [ensure_page_contexts_exist(FreshPages, pointers)
                                EXCEPT ![p].status = "pass1_processing"]
                /\ runs = [NoRuns EXCEPT ![1] =
                            [RunPass1(NewRun("pages"), Pages, "resolve")
                                EXCEPT !.tasks[p] = "calling"]]
                /\ \E r \in Responses(text) :
                        json_call = [NoCall EXCEPT !.pc = "parse", !.page = p,
                                                   !.requests = 1, !.response = r]
        /\ activeJob = [job_id |-> 1, type |-> "pages"]
        /\ jobsCreated = 1
        /\ loopOwner = 0
        /\ response = NoResponse
        /\ budget = 0
        /\ oracle = AnyOracle
        /\ sse_subscribers = << >>
        /\ file_ids = Pages
        /\ readyEvents = ZeroCount
        /\ pass3Runs = ZeroCount

NextClean == clean_response

SpecClean == InitClean /\ [][NextClean]_vars

\* ----------------------------------------------------------------- C21
\* C21: _clean_json_response gives the same string for a JSON text in a
\* markdown fence (```json or bare ```) and for the text itself, and that
\* string is the text: clean JSON comes back unchanged, so the fenced and the
\* raw response parse to the same result.
C21_FencedAndRawCleanAlike ==
    json_call.pc = "cleaned" =>
        \A text \in JsonTexts :
            json_call.response \in {text} \cup FencedForms(text)
                => /\ json_call.clean_result = text
                   /\ json_call.clean_result = clean_json_response(text)

\* A three-line object sent in a ```json fence has been cleaned to the object.
C21_Witness ==
    /\ json_call.pc = "cleaned"
    /\ json_call.response =
            Fenced(<< "j", "s", "o", "n" >>, << "{", "\n", " ", "a", "\n", "}" >>, << >>)
    /\ json_call.clean_result = << "{", "\n", " ", "a", "\n", "}" >>

\* ----------------------------------------------------------------- C22
\* C22: whenever run_pass3 sets a discipline to processing, every page
\* assigned to that discipline is pass2_complete.
C22_AggregatesOnlyCompletePages ==
    [][\A c \in DISCIPLINE_CODES :
            (discs[c].status # "processing" /\ discs'[c].status = "processing")
                => DisciplinePages(pages', c) \subseteq Pass2CompletePages(pages')]_vars

\* ----------------------------------------------------------------- C23
\* C23: a discipline goes from waiting to ready only in a step after which it
\* has at least one page and all its pages are pass2_complete; and when
\* start_processing returns, no discipline that has at least one page, all of
\* them pass2_complete, is still waiting.
C23_ReadyExactlyWhenComplete ==
    [][\A c \in DISCIPLINE_CODES :
            /\ (discs[c].status = "waiting" /\ discs'[c].status = "ready")
                    => /\ DisciplinePages(pages', c) # {}
                       /\ DisciplinePages(pages', c) \subseteq Pass2CompletePages(pages')
            /\ (runs[1].pc # "finish" /\ runs'[1].pc = "finish"
                    /\ discs'[c].exists
                    /\ DisciplinePages(pages', c) # {}
                    /\ DisciplinePages(pages', c) \subseteq Pass2CompletePages(pages'))
                    => discs'[c].status # "waiting"]_vars

\* ----------------------------------------------------------------- C24
\* C24: no run_pass3 executes while a page-processing run of the project is
\* in its Pass 1, resolver, Pass 2, propagation or sweep/retry phase.
C24_NoAggregationDuringPagePhases ==
    \A j \in JobIds, i \in JobIds :
        runs[j].pc \in {"pass3_call_queue", "pass3_call_ready"}
            => ~(/\ runs[i].kind \in {"pages", "tree"}
                 /\ runs[i].pc \in {"gather", "resolve", "select_pass2", "pass2_begin",
                                    "pass2_call", "propagate", "sweep", "retry_pass1"})

\* ----------------------------------------------------------------- C25
\* C25: in every iteration of a run, the first and each one that follows a
\* sweep, the step that joins the Pass 1 tasks hands over to the resolver, no
\* Pass 2 call begins before the resolver has run, and the sweep is entered
\* from the propagator only.
C25_FullSequenceEachIteration ==
    [][\A j \in JobIds :
            /\ (runs[j].pc = "gather" /\ runs'[j].pc # "gather")
                    => runs'[j].pc = "resolve"
            /\ (runs[j].pc # "select_pass2" /\ runs'[j].pc = "select_pass2")
                    => runs[j].pc = "resolve"
            /\ (runs[j].pc # "sweep" /\ runs'[j].pc = "sweep")
                    => runs[j].pc = "propagate"]_vars

\* ----------------------------------------------------------------- C26
\* C26: a step of a run changes the processing_status of a page row only
\* along unprocessed -> pass1_processing -> pass1_complete ->
\* pass2_processing -> pass2_complete, from either processing status to
\* error, or from error to unprocessed in the sweep with retry_count below
\* max_retries.
C26_OnlyListedTransitions ==
    [][\A p \in Pages :
            (pages[p].exists /\ pages'[p].exists /\ pages'[p].status # pages[p].status)
                => \/ << pages[p].status, pages'[p].status >> \in
                        {<< "unprocessed", "pass1_processing" >>,
                         << "pass1_processing", "pass1_complete" >>,
                         << "pass1_processing", "error" >>,
                         << "pass1_complete", "pass2_processing" >>,
                         << "pass2_processing", "pass2_complete" >>,
                         << "pass2_processing", "error" >>}
                   \/ /\ pages[p].status = "error"
                      /\ pages'[p].status = "unprocessed"
                      /\ pages[p].retry_count < max_retries
                      /\ \E j \in JobIds : runs[j].pc = "sweep"]_vars

\* ------------------------------------------------------------------ C27
\* C27: during one run of run_pass1 the pages whose Pass 1 task is in flight
\* never number more than the processor's concurrency_limit, and every page
\* selected for the run is eventually attempted.
C27_BoundedAndEveryPageAttempted ==
    /\ [](\A j \in JobIds :
            Cardinality(InFlight(runs[j])) <= runs[j].concurrency_limit)
    /\ \A j \in JobIds : \A p \in Pages :
            (runs[j].pc = "gather" /\ runs[j].tasks[p] = "queued")
                ~> (runs[j].tasks[p] \in {"calling", "done"})

\* The limit is reached while another selected page waits for a permit.
C27_Witness ==
    \E j \in JobIds : \E p \in Pages :
        /\ runs[j].pc = "gather"
        /\ Cardinality(InFlight(runs[j])) = runs[j].concurrency_limit
        /\ runs[j].tasks[p] = "queued"

\* ------------------------------------------------------------------ C28
\* C28: while a run is in its Pass 2 loop no Pass 1 task of the run is
\* unfinished, the prompt of the page in hand is built from the snapshot taken
\* at the start of the phase without the page itself, and the snapshot agrees
\* with the stored rows: each entry has the row's sheet number and
\* summary, and every row that has completed Pass 1 is in the snapshot.
C28_Pass2ReadsConsistentSnapshot ==
    \A j \in JobIds :
        runs[j].pc \in {"pass2_begin", "pass2_call"} =>
            /\ \A p \in Pages : runs[j].tasks[p] \notin {"queued", "calling"}
            /\ runs[j].pc = "pass2_call" =>
                    /\ runs[j].other_pages_summaries \subseteq runs[j].all_page_summaries
                    /\ \A s \in runs[j].other_pages_summaries :
                            s.page_id # Head(runs[j].page_ids)
            /\ \A s \in runs[j].all_page_summaries :
                    \/ s \in get_all_page_summaries(pages)
                    \/ /\ pages[s.page_id].status = "error"
                       /\ s.page_id \in pass2_failed
                       /\ s \in get_all_page_summaries(
                                    [pages EXCEPT ![s.page_id].status = "pass2_complete"])
            /\ \A s \in get_all_page_summaries(pages) :
                    s \in runs[j].all_page_summaries

\* ------------------------------------------------------------------ C29
\* C29: a step of a page task of the Pass 1 fan-out changes no page row but
\* its own and no Discipline row; no Discipline row is created while a page
\* task of a fan-out is in flight; and the step in which the fan-out joins
\* leaves a Discipline row for every discovered code.
C29_FanOutWritesOwnRowOnly ==
    [][\A j \in JobIds :
            /\ \A p \in Pages :
                    (/\ runs[j].pc = "gather"
                     /\ runs'[j].pc = "gather"
                     /\ runs'[j].tasks[p] # runs[j].tasks[p])
                        => /\ \A q \in Pages \ {p} : pages'[q] = pages[q]
                           /\ discs' = discs
            /\ InFlight(runs[j]) # {}
                    => \A c \in DISCIPLINE_CODES : discs'[c].exists = discs[c].exists
            /\ (runs[j].pc = "gather" /\ runs'[j].pc # "gather")
                    => \A c \in runs[j].discovered : discs'[c].exists]_vars

\* ------------------------------------------------------------------ C30
\* C30: when start_processing has returned, every inbound_references entry of
\* every page has a context: the one the pass2_output of the source page
\* gives for (source_sheet, original_ref) if there is one, the empty string
\* if not.
C30_EveryInboundEntryHasContext ==
    \A j \in JobIds :
        (runs[j].kind \in {"pages", "tree"} /\ runs[j].pc = "finish") =>
            \A p \in Rows(pages) :
                \A i \in DOMAIN pages[p].inbound_references.entries :
                    LET e == pages[p].inbound_references.entries[i]
                        given == ContextLookup(pages,
                                               SeqOfSet(Pass2CompletePages(pages), 1),
                                               e.source_sheet, e.original_ref,
                                               [hit |-> FALSE, context |-> ""])
                    IN  /\ e.has_context
                        /\ e.context = IF given.hit THEN given.context ELSE ""

\* ------------------------------------------------------------------ C31
\* C31: retry_count of every page is between 0 and max_retries; the step of a
\* sweep adds exactly one to the retry_count of each page it resets to
\* unprocessed, clears its error_message and leaves every other row as it
\* was; and retry_count changes in no other way than by a sweep or by an
\* accepted administrative reset, which sets it to 0.
C31_RetryCountBounded ==
    /\ [](\A p \in Pages : pages[p].retry_count \in 0..max_retries)
    /\ [][\A p \in Pages :
            /\ (\E j \in JobIds : runs[j].pc = "sweep" /\ runs'[j].pc # "sweep")
                    => IF /\ pages[p].exists
                          /\ pages[p].status \in {"unprocessed", "error", "pass1_processing"}
                          /\ pages[p].retry_count < max_retries
                       THEN pages'[p] = [pages[p] EXCEPT !.status = "unprocessed",
                                                         !.retry_count = @ + 1,
                                                         !.error_message = ""]
                       ELSE pages'[p] = pages[p]
            /\ pages'[p].retry_count # pages[p].retry_count
                    => \/ \E j \in JobIds : runs[j].pc = "sweep" /\ runs'[j].pc # "sweep"
                       \/ /\ response' = [op |-> "reset", job_id |-> 0, status |-> "ok"]
                          /\ pages'[p].retry_count = 0]_vars

\* A sweep has found a page at the retry budget and left it in error.
C31_Witness ==
    \E j \in JobIds : \E p \in Pages :
        /\ runs[j].pc = "finish"
        /\ p \in runs[j].failed
        /\ pages[p].status = "error"
        /\ pages[p].retry_count = max_retries
        /\ \E q \in Pages : pages[q].retry_count \in 1..(max_retries - 1)

\* ------------------------------------------------------------------ C32
\* C32: the step in which a Pass 1 oracle call of a page returns either
\* stores the answer as pass1_output, sets discipline_code to the answered
\* code if it is one of DISCIPLINE_CODES and to "G" if not, sets status
\* pass1_complete and clears error_message, or sets status error with a
\* message and reports the page as failed; and discipline_code of every page
\* is always empty or one of DISCIPLINE_CODES.
C32_Pass1CommitsValidDiscipline ==
    /\ [](\A p \in Pages : pages[p].discipline_code \in DISCIPLINE_CODES \cup {""})
    /\ [][\A j \in JobIds : \A p \in Pages :
            (/\ runs[j].pc = "gather"
             /\ runs[j].tasks[p] = "calling"
             /\ runs'[j].tasks[p] = "done")
                => \/ \E answer \in oracle[p] :
                        /\ pages'[p].pass1_output =
                                [present |-> TRUE, discipline |-> answer.discipline,
                                 sheet_number |-> answer.sheet_number,
                                 refs |-> answer.refs]
                        /\ pages'[p].discipline_code =
                                IF answer.discipline \in DISCIPLINE_CODES
                                THEN answer.discipline ELSE "G"
                        /\ pages'[p].status = "pass1_complete"
                        /\ pages'[p].error_message = ""
                        /\ runs'[j].errors = runs[j].errors
                   \/ /\ pages'[p].status = "error"
                      /\ pages'[p].error_message # ""
                      /\ pages'[p].pass1_output = pages[p].pass1_output
                      /\ pages'[p].discipline_code = pages[p].discipline_code
                      /\ p \in runs'[j].errors]_vars

\* One page was answered with a code outside the set and filed under "G";
\* the call for another page failed.
C32_Witness ==
    \E p, q \in Pages :
        /\ pages[p].status = "pass1_complete"
        /\ pages[p].pass1_output.present
        /\ pages[p].pass1_output.discipline \notin DISCIPLINE_CODES
        /\ pages[p].discipline_code = "G"
        /\ pages[q].status = "error"
        /\ pages[q].error_message = "pass1"

\* ------------------------------------------------------------------ C33
\* C33: the step in which run_pass3 returns leaves the discipline complete or
\* in error; when it leaves it complete the description is written and every
\* page assigned to the discipline is linked to it; and no step takes a
\* discipline from error to processing.
C33_Pass3EndsCompleteOrError ==
    [][/\ \A j \in JobIds :
            (/\ runs[j].pc \in {"pass3_call_queue", "pass3_call_ready"}
             /\ runs'[j].pc \notin {"pass3_call_queue", "pass3_call_ready"})
                => LET code == runs[j].current
                   IN  /\ discs'[code].status \in {"complete", "error"}
                       /\ discs'[code].status = "complete"
                            => /\ discs'[code].described
                               /\ \A p \in DisciplinePages(pages', code) :
                                        pages'[p].discipline_id = code
       /\ \A c \in DISCIPLINE_CODES :
            ~(discs[c].status = "error" /\ discs'[c].status = "processing")]_vars

\* ------------------------------------------------------------------ C34
\* C34: every step that changes the processing_status of a discipline, other
\* than an accepted administrative reset, takes it from waiting to ready,
\* from ready to processing, or from processing to complete or error.
C34_DisciplineStatusOrder ==
    [][\A c \in DISCIPLINE_CODES :
            (discs[c].exists /\ discs'[c].exists /\ discs'[c].status # discs[c].status)
                => \/ << discs[c].status, discs'[c].status >> \in
                        {<< "waiting", "ready" >>, << "ready", "processing" >>,
                         << "processing", "complete" >>, << "processing", "error" >>}
                   \/ /\ response' = [op |-> "reset", job_id |-> 0, status |-> "ok"]
                      /\ response' # response
                      /\ discs'[c].status = "waiting"]_vars

C36_CompletePageIsFrozen ==
    [][\A p \in Pages :
         (/\ pages[p].exists
          /\ pages[p].status = "pass2_complete"
          /\ \/ pages'[p].status # pages[p].status
             \/ pages'[p].pass1_output # pages[p].pass1_output
             \/ pages'[p].pass2_output # pages[p].pass2_output
             \/ pages'[p].retry_count # pages[p].retry_count)
         => reset_page_processing]_vars

\* C37: every job a trigger reports as started eventually ends, with its
\* terminal event broadcast and its registry entry removed, and finishing a
\* job never removes the registry entry of a different job that is still
\* running.  The formula is the last part: the step in which job j returns
\* leaves the entry of another executing job in the registry.
C37_FinishClearsOwnEntryOnly ==
    [][\A j \in JobIds :
         (/\ Executing(j)
          /\ ~Executing(j)'
          /\ activeJob # NoJob
          /\ activeJob.job_id # j
          /\ Executing(activeJob.job_id))
         => activeJob' = activeJob]_vars

\* ------------------------------------------------------------------ C38
\* A pages job and a disciplines job of one project, both reported started,
\* with one client connected to the progress stream that has read nothing
\* yet: its queue is the list of the events broadcast so far.
InitEvents ==
    /\ \/ /\ pages = FreshPages
          /\ discs = FreshDisciplines
          /\ readyEvents = ZeroCount
       \/ /\ pages = ProcessedPages
          /\ discs = ProcessedDisciplines
          /\ readyEvents = ProcessedEvents
    /\ pass2_failed = {}
    /\ pointers = Pages
    /\ runs = [NoRuns EXCEPT ![1] = NewRun("pages"), ![2] = NewRun("disciplines")]
    /\ activeJob = [job_id |-> 2, type |-> "disciplines"]
    /\ jobsCreated = 2
    /\ loopOwner = 0
    /\ response = NoResponse
    /\ budget = MaxEvents
    /\ oracle = ExactOracle
    /\ sse_subscribers = << << >> >>
    /\ file_ids = Pages
    /\ json_call = NoCall
    /\ pass3Runs = ZeroCount

NextEvents == \E j \in JobIds : PageStep(j) \/ StartDisciplines(j) \/ DisciplineStep(j)

SpecEvents == InitEvents /\ [][NextEvents]_vars

\* C38: for each job exactly one terminal event (processing_complete or
\* processing_error) is broadcast to the project's subscribers, and it is
\* the last event broadcast for that job.
C38_OneTerminalEventAndLast ==
    \A j \in JobIds :
        LET log == sse_subscribers[1]
            terminal == {i \in DOMAIN log :
                            /\ log[i].jobId = j
                            /\ log[i].event_type \in {"processing_complete",
                                                      "processing_error"}}
        IN  /\ Cardinality(terminal) <= 1
            /\ \A i \in terminal : \A k \in DOMAIN log : k > i => log[k].jobId # j
            /\ runs[j].pc = "done" => Cardinality(terminal) = 1

\* ------------------------------------------------------------------ C39
\* C39: when several pass1_complete pages have sheet numbers with the same
\* normalized key, a reference that normalizes to that key produces an
\* inbound entry on every one of those pages.
C39_EntryOnEveryPageOfTheKey ==
    runs[1].pc = "select_pass2" =>
        \A b \in Pass1CompletePages(pages) :
            (/\ normalize_sheet_ref(pages[b].sheet_number) # NoString
             /\ ~OnlyPageOfItsSheet(pages, b))
                => \A e \in Inverted(pages, b) :
                        \E k \in DOMAIN pages[b].inbound_references.entries :
                            InvertedAs(pages, b, k, e)

====
